---- MODULE Spec2Model ----
(***************************************************************************)
(* Model of qtils::SizeLimitedContainer (SLVector / SLBuffer / ByteVec),    *)
(* include/qtils/size_limited_containers.hpp.                               *)
(*                                                                         *)
(* One container object of type SizeLimitedContainer<std::vector<E>,       *)
(* MaxSize> is tracked.  Every validated member function is an operator     *)
(* that takes the object's state and the call's arguments and returns the  *)
(* outcome; the actions apply those operators.  The base container is      *)
(* std::vector with the growth policy of libstdc++.                        *)
(***************************************************************************)
EXTENDS Integers, Sequences, FiniteSets, TLC

\* ---------------------------------------------------------------- bounds
\* width of size_type in the model (size_t has 64 bits in the build)
SizeWidth == 4
\* largest finite MaxSize template argument explored
MaxLimit == 2
\* longest source sequence / longest content of an unbounded container
MaxLen == 3
\* number of distinct element values
NumVals == 2

\* ------------------------------------------------------------ value sets
SizeTypeMax == 2 ^ SizeWidth - 1
VecMaxSize == SizeTypeMax \div 2
DefaultValue == 0
Vals == 0 .. (NumVals - 1)
MaxSizes == (0 .. MaxLimit) \cup {SizeTypeMax}
ReqSizes == (0 .. MaxLen) \cup {SizeTypeMax}
Sources == UNION {[1 .. k -> Vals] : k \in 0 .. MaxLen}

VARIABLES MaxSize, alive, c, cap, last, hx, sr, bov

vars == <<MaxSize, alive, c, cap, last>>

\* hx is the last call into the hex codec (hex.hpp, unhex.hpp) with its
\* arguments and its outcome; the container operations leave it alone
NoCodec == [op |-> "none"]

\* sr is a set of SharedRef variables (shared_ref.hpp) with the last call
\* made on them: objs[i].ptr is the pointer SharedRef number i holds, and
\* nullptr is 0
NumRefs == 2
NumTargets == 2
nullptr == 0
Refs == 1 .. NumRefs
Ptrs == nullptr .. NumTargets
NoRef == [alive |-> FALSE, ptr |-> nullptr]
NoRefCall == [op |-> "none", out |-> "ok", i |-> 0, j |-> 0, arg |-> nullptr]
NoRefs == [objs |-> [i \in Refs |-> NoRef], last |-> NoRefCall]

\* bov is one ByteVecOrView variable (byte_vec_or_view.hpp) with the last
\* call made on it
NoBovCall == [op |-> "none", out |-> "ok", owned |-> FALSE, ret |-> <<>>]
NoBov == [exists |-> FALSE, variant |-> "ByteView", bytes |-> <<>>, last |-> NoBovCall]

\* ------------------------------------------------------------- helpers
Max(a, b) == IF a > b THEN a ELSE b
Fill(n, v) == [i \in 1 .. n |-> v]
InsertAt(s, pos, xs) == SubSeq(s, 1, pos) \o xs \o SubSeq(s, pos + 1, Len(s))
Grow(size, capacity, n) ==
  IF size + n > capacity THEN size + Max(size, n) ELSE capacity

\* outcome of a call: what was raised, the object's content and capacity
\* afterwards, the arguments formatted into the exception, and the state of
\* the source container afterwards
R(out, content, capacity, err, src) ==
  [out |-> out, c |-> content, cap |-> capacity, err |-> err, src |-> src]

\* ------------------------------------------------------- std::vector
vector_ctor_n(n, v) ==
  IF n > VecMaxSize THEN R("length_error", <<>>, 0, <<>>, <<>>)
  ELSE R("ok", Fill(n, v), n, <<>>, <<>>)

vector_ctor_copy(other) == R("ok", other, Len(other), <<>>, other)

vector_ctor_move(other) == R("ok", other, Len(other), <<>>, <<>>)

vector_assign_copy(content, capacity, other) ==
  R("ok", other, Max(capacity, Len(other)), <<>>, other)

vector_assign_move(content, capacity, other) ==
  R("ok", other, Len(other), <<>>, <<>>)

vector_assign_n(content, capacity, n, v) ==
  IF n > capacity /\ n > VecMaxSize
  THEN R("length_error", content, capacity, <<>>, <<>>)
  ELSE R("ok", Fill(n, v), Max(capacity, n), <<>>, <<>>)

vector_insert_n(content, capacity, pos, n, v) ==
  IF VecMaxSize - Len(content) < n
  THEN R("length_error", content, capacity, <<>>, <<>>)
  ELSE R("ok", InsertAt(content, pos, Fill(n, v)),
         Grow(Len(content), capacity, n), <<>>, <<>>)

vector_insert_range(content, capacity, pos, xs) ==
  IF VecMaxSize - Len(content) < Len(xs)
  THEN R("length_error", content, capacity, <<>>, xs)
  ELSE R("ok", InsertAt(content, pos, xs),
         Grow(Len(content), capacity, Len(xs)), <<>>, xs)

vector_reserve(content, capacity, n) ==
  IF n > VecMaxSize THEN R("length_error", content, capacity, <<>>, <<>>)
  ELSE R("ok", content, Max(capacity, n), <<>>, <<>>)

vector_resize(content, capacity, n, v) ==
  IF n > Len(content)
  THEN vector_insert_n(content, capacity, Len(content), n - Len(content), v)
  ELSE R("ok", SubSeq(content, 1, n), capacity, <<>>, <<>>)

\* ------------------------------------------- SizeLimitedContainer
\* variant of size_check_is_enabled: the check is compiled in for every MaxSize
size_check_always_enabled(max) == max <= SizeTypeMax

size_check_is_enabled(max) == max < SizeTypeMax

max_size(max) == max

MaxSizeException(content, capacity, err, src) ==
  R("MaxSizeException", content, capacity, err, src)

\* explicit SizeLimitedContainer(size_t size)
ctor_size(max, size) ==
  IF size_check_is_enabled(max) /\ size > max_size(max)
  THEN MaxSizeException(<<>>, 0, <<max_size(max), size>>, <<>>)
  ELSE vector_ctor_n(size, DefaultValue)

\* SizeLimitedContainer(size_t size, const value_type &value)
ctor_size_value(max, size, value) ==
  IF size_check_is_enabled(max) /\ size > max_size(max)
  THEN MaxSizeException(<<>>, 0, <<max_size(max), size>>, <<>>)
  ELSE vector_ctor_n(size, value)

\* variant of ctor_copy: a source of exactly MaxSize elements is refused
ctor_copy_refuses_exact_fit(max, other) ==
  IF size_check_is_enabled(max) /\ Len(other) >= max_size(max)
  THEN MaxSizeException(<<>>, 0, <<max_size(max), Len(other)>>, other)
  ELSE vector_ctor_copy(other)

\* SizeLimitedContainer(const Base &other)
ctor_copy(max, other) ==
  IF size_check_is_enabled(max) /\ Len(other) > max_size(max)
  THEN MaxSizeException(<<>>, 0, <<max_size(max), Len(other)>>, other)
  ELSE vector_ctor_copy(other)

\* SizeLimitedContainer(Base &&other)
ctor_move(max, other) ==
  IF size_check_is_enabled(max) /\ Len(other) > max_size(max)
  THEN MaxSizeException(<<>>, 0, <<max_size(max), Len(other)>>, other)
  ELSE vector_ctor_move(other)

\* SizeLimitedContainer(Iter begin, Iter end); the exception is given
\* Base::size() of the base subobject that is not constructed yet: uninit
ctor_range(max, xs, uninit) ==
  IF size_check_is_enabled(max) /\ Len(xs) > max_size(max)
  THEN MaxSizeException(<<>>, 0, <<max_size(max), uninit>>, xs)
  ELSE vector_ctor_copy(xs)

\* SizeLimitedContainer(std::initializer_list<value_type> list)
ctor_list(max, list, uninit) == ctor_range(max, list, uninit)

\* operator=(const Base &other)
assign_copy(max, content, capacity, other) ==
  IF size_check_is_enabled(max) /\ Len(other) > max_size(max)
  THEN MaxSizeException(content, capacity,
                        <<max_size(max), Len(other)>>, other)
  ELSE vector_assign_copy(content, capacity, other)

\* variant of assign_move: the source is taken before its size is checked
assign_move_takes_first(max, content, capacity, other) ==
  IF size_check_is_enabled(max) /\ Len(other) > max_size(max)
  THEN MaxSizeException(content, capacity,
                        <<max_size(max), Len(other)>>, <<>>)
  ELSE vector_assign_move(content, capacity, other)

\* operator=(Base &&other)
assign_move(max, content, capacity, other) ==
  IF size_check_is_enabled(max) /\ Len(other) > max_size(max)
  THEN MaxSizeException(content, capacity,
                        <<max_size(max), Len(other)>>, other)
  ELSE vector_assign_move(content, capacity, other)

\* operator=(std::initializer_list<value_type> list)
assign_op_list(max, content, capacity, list) ==
  IF size_check_is_enabled(max) /\ Len(list) > max_size(max)
  THEN MaxSizeException(content, capacity,
                        <<max_size(max), Len(list)>>, list)
  ELSE vector_assign_copy(content, capacity, list)

\* assign(size_type size, const value_type &value)
assign_size_value(max, content, capacity, size, value) ==
  IF size_check_is_enabled(max) /\ size > max_size(max)
  THEN MaxSizeException(content, capacity, <<max_size(max), size>>, <<>>)
  ELSE vector_assign_n(content, capacity, size, value)

\* assign(Iter begin, Iter end)
assign_range(max, content, capacity, xs) ==
  IF size_check_is_enabled(max) /\ Len(xs) > max_size(max)
  THEN MaxSizeException(content, capacity,
                        <<max_size(max), Len(content)>>, xs)
  ELSE vector_assign_copy(content, capacity, xs)

\* variant of assign_list: the old content is dropped before the check
assign_list_clears_first(max, content, capacity, list) ==
  IF size_check_is_enabled(max) /\ Len(list) > max_size(max)
  THEN MaxSizeException(<<>>, capacity, <<max_size(max), 0>>, list)
  ELSE vector_assign_copy(content, capacity, list)

\* assign(std::initializer_list<value_type> list)
assign_list(max, content, capacity, list) ==
  IF size_check_is_enabled(max) /\ Len(list) > max_size(max)
  THEN MaxSizeException(content, capacity,
                        <<max_size(max), Len(content)>>, list)
  ELSE vector_assign_copy(content, capacity, list)

\* emplace_back(Args &&...args)
emplace_back(max, content, capacity, value) ==
  IF size_check_is_enabled(max) /\ Len(content) >= max_size(max)
  THEN MaxSizeException(content, capacity,
                        <<max_size(max), Len(content)>>, <<>>)
  ELSE vector_insert_n(content, capacity, Len(content), 1, value)

\* emplace(It pos, Args &&...args)
emplace(max, content, capacity, pos, value) ==
  IF size_check_is_enabled(max) /\ Len(content) >= max_size(max)
  THEN MaxSizeException(content, capacity,
                        <<max_size(max), Len(content)>>, <<>>)
  ELSE vector_insert_n(content, capacity, pos, 1, value)

\* variant of insert_value: a full container still accepts one element
insert_value_accepts_when_full(max, content, capacity, pos, value) ==
  IF size_check_is_enabled(max) /\ Len(content) > max_size(max)
  THEN MaxSizeException(content, capacity,
                        <<max_size(max), Len(content)>>, <<>>)
  ELSE vector_insert_n(content, capacity, pos, 1, value)

\* insert(It pos, const value_type &value)
insert_value(max, content, capacity, pos, value) ==
  IF size_check_is_enabled(max) /\ Len(content) >= max_size(max)
  THEN MaxSizeException(content, capacity,
                        <<max_size(max), Len(content)>>, <<>>)
  ELSE vector_insert_n(content, capacity, pos, 1, value)

\* available = max_size() - Base::size(), in size_type arithmetic
available(max, size) == (max_size(max) - size) % (SizeTypeMax + 1)

\* variant of insert_size_value: the check adds the count to the size, in
\* size_type arithmetic, and compares the sum with MaxSize
insert_size_value_wrapping_sum(max, content, capacity, pos, size, value) ==
  IF size_check_is_enabled(max)
     /\ (Len(content) + size) % (SizeTypeMax + 1) > max_size(max)
  THEN MaxSizeException(content, capacity, <<max_size(max), size>>, <<>>)
  ELSE vector_insert_n(content, capacity, pos, size, value)

\* variant of insert_size_value: a count that exactly fits is refused
insert_size_value_exact(max, content, capacity, pos, size, value) ==
  IF size_check_is_enabled(max) /\ available(max, Len(content)) <= size
  THEN MaxSizeException(content, capacity, <<max_size(max), size>>, <<>>)
  ELSE vector_insert_n(content, capacity, pos, size, value)

\* insert(It pos, size_type size, const value_type &value)
insert_size_value(max, content, capacity, pos, size, value) ==
  IF size_check_is_enabled(max) /\ available(max, Len(content)) < size
  THEN MaxSizeException(content, capacity, <<max_size(max), size>>, <<>>)
  ELSE vector_insert_n(content, capacity, pos, size, value)

\* variant of insert_range: the range is compared with MaxSize, not with
\* the room that is left
insert_range_ignores_size(max, content, capacity, pos, xs) ==
  IF size_check_is_enabled(max) /\ max_size(max) < Len(xs)
  THEN MaxSizeException(content, capacity,
                        <<max_size(max), Len(content), Len(xs)>>, xs)
  ELSE vector_insert_range(content, capacity, pos, xs)

\* insert(OutIt pos, InIt begin, InIt end)
insert_range(max, content, capacity, pos, xs) ==
  IF size_check_is_enabled(max) /\ available(max, Len(content)) < Len(xs)
  THEN MaxSizeException(content, capacity,
                        <<max_size(max), Len(content), Len(xs)>>, xs)
  ELSE vector_insert_range(content, capacity, pos, xs)

\* insert(It pos, std::initializer_list<value_type> &&list)
insert_list(max, content, capacity, pos, list) ==
  IF size_check_is_enabled(max) /\ available(max, Len(content)) < Len(list)
  THEN MaxSizeException(content, capacity,
                        <<max_size(max), Len(content)>>, list)
  ELSE vector_insert_range(content, capacity, pos, list)

\* push_back(V &&value)
push_back(max, content, capacity, value) ==
  IF size_check_is_enabled(max) /\ Len(content) >= max_size(max)
  THEN MaxSizeException(content, capacity, <<max_size(max)>>, <<>>)
  ELSE vector_insert_n(content, capacity, Len(content), 1, value)

\* variant of reserve: reserving exactly MaxSize is refused
reserve_refuses_exact_fit(max, content, capacity, size) ==
  IF size_check_is_enabled(max) /\ size >= max_size(max)
  THEN MaxSizeException(content, capacity, <<max_size(max), size>>, <<>>)
  ELSE vector_reserve(content, capacity, size)

\* reserve(size_type size)
reserve(max, content, capacity, size) ==
  IF size_check_is_enabled(max) /\ size > max_size(max)
  THEN MaxSizeException(content, capacity, <<max_size(max), size>>, <<>>)
  ELSE vector_reserve(content, capacity, size)

\* resize(size_type size)
resize(max, content, capacity, size) ==
  IF size_check_is_enabled(max) /\ size > max_size(max)
  THEN MaxSizeException(content, capacity, <<max_size(max), size>>, <<>>)
  ELSE vector_resize(content, capacity, size, DefaultValue)

\* variant of resize_value: the fill value is dropped
resize_value_drops_value(max, content, capacity, size, value) ==
  IF size_check_is_enabled(max) /\ size > max_size(max)
  THEN MaxSizeException(content, capacity, <<max_size(max), size>>, <<>>)
  ELSE vector_resize(content, capacity, size, DefaultValue)

\* resize(size_type size, const value_type &value)
resize_value(max, content, capacity, size, value) ==
  IF size_check_is_enabled(max) /\ size > max_size(max)
  THEN MaxSizeException(content, capacity, <<max_size(max), size>>, <<>>)
  ELSE vector_resize(content, capacity, size, value)

\* ------------------------------------------------------------- actions
NoCall == [op |-> "none", out |-> "ok", pos |-> 0, n |-> 0, val |-> 0,
           arg |-> <<>>, src |-> <<>>, err |-> <<>>]

Call(op, r, pos, n, val, arg) ==
  [op |-> op, out |-> r.out, pos |-> pos, n |-> n, val |-> val,
   arg |-> arg, src |-> r.src, err |-> r.err]

\* there is no object, and no outcome the caller has yet to deal with
CanConstruct == ~alive /\ last.op = "none"

\* there is an object, and no outcome the caller has yet to deal with
CanCall == alive /\ last.op = "none"

\* a constructor call: the object exists afterwards iff nothing was thrown
Construct(op, r, n, val, arg) ==
  /\ Len(r.c) <= MaxLen
  /\ alive' = (r.out = "ok")
  /\ c' = r.c
  /\ cap' = r.cap
  /\ last' = Call(op, r, 0, n, val, arg)
  /\ UNCHANGED <<MaxSize, hx, sr, bov>>

\* a member function call on the live object
Mutate(op, r, pos, n, val, arg) ==
  /\ Len(r.c) <= MaxLen
  /\ c' = r.c
  /\ cap' = r.cap
  /\ last' = Call(op, r, pos, n, val, arg)
  /\ UNCHANGED <<MaxSize, alive, hx, sr, bov>>

Init ==
  /\ MaxSize \in MaxSizes
  /\ alive = FALSE
  /\ c = <<>>
  /\ cap = 0
  /\ last = NoCall
  /\ hx = NoCodec
  /\ sr = NoRefs
  /\ bov = NoBov

CtorDefault ==
  /\ CanConstruct
  /\ Construct("ctor_default", R("ok", <<>>, 0, <<>>, <<>>), 0, 0, <<>>)

CtorSize ==
  /\ CanConstruct
  /\ \E size \in ReqSizes :
       Construct("ctor_size", ctor_size(MaxSize, size), size, DefaultValue, <<>>)

CtorSizeValue ==
  /\ CanConstruct
  /\ \E size \in ReqSizes, value \in Vals :
       Construct("ctor_size_value", ctor_size_value(MaxSize, size, value),
                 size, value, <<>>)

CtorCopy ==
  /\ CanConstruct
  /\ \E other \in Sources :
       Construct("ctor_copy", ctor_copy(MaxSize, other), Len(other), 0, other)

CtorMove ==
  /\ CanConstruct
  /\ \E other \in Sources :
       Construct("ctor_move", ctor_move(MaxSize, other), Len(other), 0, other)

\* the values Base::size() can give when the constructor's exception is
\* built: the base subobject is not constructed then, any size_type value
UninitSizes(max, xs) ==
  IF size_check_is_enabled(max) /\ Len(xs) > max_size(max)
  THEN 0 .. SizeTypeMax ELSE {0}

CtorRange ==
  /\ CanConstruct
  /\ \E xs \in Sources : \E uninit \in UninitSizes(MaxSize, xs) :
       Construct("ctor_range", ctor_range(MaxSize, xs, uninit), Len(xs), 0, xs)

CtorList ==
  /\ CanConstruct
  /\ \E list \in Sources : \E uninit \in UninitSizes(MaxSize, list) :
       Construct("ctor_list", ctor_list(MaxSize, list, uninit),
                 Len(list), 0, list)

\* the scope of the object ends
Destroy ==
  /\ CanCall
  /\ alive' = FALSE
  /\ c' = <<>>
  /\ cap' = 0
  /\ UNCHANGED <<MaxSize, last, hx, sr, bov>>

\* the caller takes the outcome of the call (the returned value or the
\* caught exception) and goes on
Return ==
  /\ last.op # "none"
  /\ last' = NoCall
  /\ UNCHANGED <<MaxSize, alive, c, cap, hx, sr, bov>>

AssignCopy ==
  /\ CanCall
  /\ \E other \in Sources :
       Mutate("assign_copy", assign_copy(MaxSize, c, cap, other),
              0, Len(other), 0, other)

AssignMove ==
  /\ CanCall
  /\ \E other \in Sources :
       Mutate("assign_move", assign_move(MaxSize, c, cap, other),
              0, Len(other), 0, other)

AssignOpList ==
  /\ CanCall
  /\ \E list \in Sources :
       Mutate("assign_op_list", assign_op_list(MaxSize, c, cap, list),
              0, Len(list), 0, list)

AssignSizeValue ==
  /\ CanCall
  /\ \E size \in ReqSizes, value \in Vals :
       Mutate("assign_size_value",
              assign_size_value(MaxSize, c, cap, size, value),
              0, size, value, <<>>)

AssignRange ==
  /\ CanCall
  /\ \E xs \in Sources :
       Mutate("assign_range", assign_range(MaxSize, c, cap, xs),
              0, Len(xs), 0, xs)

AssignList ==
  /\ CanCall
  /\ \E list \in Sources :
       Mutate("assign_list", assign_list(MaxSize, c, cap, list),
              0, Len(list), 0, list)

EmplaceBack ==
  /\ CanCall
  /\ \E value \in Vals :
       Mutate("emplace_back", emplace_back(MaxSize, c, cap, value),
              Len(c), 1, value, <<>>)

Emplace ==
  /\ CanCall
  /\ \E pos \in 0 .. Len(c), value \in Vals :
       Mutate("emplace", emplace(MaxSize, c, cap, pos, value),
              pos, 1, value, <<>>)

InsertValue ==
  /\ CanCall
  /\ \E pos \in 0 .. Len(c), value \in Vals :
       Mutate("insert_value", insert_value(MaxSize, c, cap, pos, value),
              pos, 1, value, <<>>)

InsertSizeValue ==
  /\ CanCall
  /\ \E pos \in 0 .. Len(c), size \in ReqSizes, value \in Vals :
       Mutate("insert_size_value",
              insert_size_value(MaxSize, c, cap, pos, size, value),
              pos, size, value, <<>>)

InsertRange ==
  /\ CanCall
  /\ \E pos \in 0 .. Len(c), xs \in Sources :
       Mutate("insert_range", insert_range(MaxSize, c, cap, pos, xs),
              pos, Len(xs), 0, xs)

InsertList ==
  /\ CanCall
  /\ \E pos \in 0 .. Len(c), list \in Sources :
       Mutate("insert_list", insert_list(MaxSize, c, cap, pos, list),
              pos, Len(list), 0, list)

PushBack ==
  /\ CanCall
  /\ \E value \in Vals :
       Mutate("push_back", push_back(MaxSize, c, cap, value),
              Len(c), 1, value, <<>>)

Reserve ==
  /\ CanCall
  /\ \E size \in ReqSizes :
       Mutate("reserve", reserve(MaxSize, c, cap, size), 0, size, 0, <<>>)

Resize ==
  /\ CanCall
  /\ \E size \in ReqSizes :
       Mutate("resize", resize(MaxSize, c, cap, size),
              0, size, DefaultValue, <<>>)

ResizeValue ==
  /\ CanCall
  /\ \E size \in ReqSizes, value \in Vals :
       Mutate("resize_value", resize_value(MaxSize, c, cap, size, value),
              0, size, value, <<>>)

Next ==
  \/ CtorDefault
  \/ CtorSize
  \/ CtorSizeValue
  \/ CtorCopy
  \/ CtorMove
  \/ CtorRange
  \/ CtorList
  \/ Destroy
  \/ Return
  \/ AssignCopy
  \/ AssignMove
  \/ AssignOpList
  \/ AssignSizeValue
  \/ AssignRange
  \/ AssignList
  \/ EmplaceBack
  \/ Emplace
  \/ InsertValue
  \/ InsertSizeValue
  \/ InsertRange
  \/ InsertList
  \/ PushBack
  \/ Reserve
  \/ Resize
  \/ ResizeValue

Spec == Init /\ [][Next]_vars

\* ---------------------------------- the members of the public base class
\* std::vector::push_back on the reference SLBuffer::asVector() returns
vector_push_back(content, capacity, value) ==
  vector_insert_n(content, capacity, Len(content), 1, value)

\* std::vector::swap(std::vector &other), inherited from BaseContainer: the
\* two vectors exchange their buffers
vector_swap(content, capacity, other) ==
  R("ok", other, Len(other), <<>>, content)

AsVectorPushBack ==
  /\ CanCall
  /\ \E value \in Vals :
       Mutate("asVector_push_back", vector_push_back(c, cap, value),
              Len(c), 1, value, <<>>)

SwapWithVector ==
  /\ CanCall
  /\ \E other \in Sources :
       Mutate("vector_swap", vector_swap(c, cap, other),
              0, Len(other), 0, other)

\* the validated operations together with those of the public base
NextBase ==
  \/ Next
  \/ AsVectorPushBack
  \/ SwapWithVector

SpecBase == Init /\ [][NextBase]_vars

TypeOK ==
  /\ MaxSize \in MaxSizes
  /\ alive \in BOOLEAN
  /\ c \in Sources
  /\ cap \in 0 .. 2 * MaxLen
  /\ Len(c) <= cap

\* ------------------------------------------------- vocabulary of the claims
Finite == size_check_is_enabled(MaxSize)
CtorSizedOps == {"ctor_size", "ctor_size_value"}
CtorSourceOps == {"ctor_copy", "ctor_move", "ctor_range", "ctor_list"}
CtorOps == CtorSizedOps \cup CtorSourceOps
AssignSourceOps ==
  {"assign_copy", "assign_move", "assign_op_list", "assign_range",
   "assign_list"}
AssignOps == AssignSourceOps \cup {"assign_size_value"}
SingleInsertOps == {"emplace_back", "emplace", "insert_value", "push_back"}
SourceInsertOps == {"insert_range", "insert_list"}
MultiInsertOps == SourceInsertOps \cup {"insert_size_value"}
InsertOps == SingleInsertOps \cup MultiInsertOps
ResizeOps == {"resize", "resize_value"}
MoveOps == {"ctor_move", "assign_move"}

\* the length the call described by l asks the object to have, the object
\* having length size before the call
RequestedSize(l, size) ==
  IF l.op \in InsertOps THEN size + l.n
  ELSE IF l.op = "reserve" THEN size
  ELSE l.n

\* the i-th new element of the call described by l
NewElement(l, i) ==
  IF l.op \in CtorSourceOps \cup AssignSourceOps \cup SourceInsertOps
  THEN l.arg[i] ELSE l.val

\* s holds exactly the n new elements of the call described by l
HoldsNewElements(s, l) ==
  /\ Len(s) = l.n
  /\ \A i \in 1 .. l.n : s[i] = NewElement(l, i)

\* new is old with the l.n new elements of l standing together at offset
\* l.pos, everything else of old in its order around them
InsertedAt(old, new, l) ==
  /\ Len(new) = Len(old) + l.n
  /\ \A i \in 1 .. l.pos : new[i] = old[i]
  /\ \A i \in 1 .. l.n : new[l.pos + i] = NewElement(l, i)
  /\ \A i \in (l.pos + 1) .. Len(old) : new[i + l.n] = old[i]

\* C1: with a finite MaxSize the live object never holds more than MaxSize
\* elements, whatever calls succeeded or threw before; and a call that asks
\* for more than MaxSize elements throws MaxSizeException and changes neither
\* the content nor the capacity (a constructor then produces no object).
C1_SizeNeverExceedsMaxSize ==
  /\ [](Finite /\ alive => Len(c) <= MaxSize)
  /\ [][(Finite /\ last'.op # "none"
           /\ RequestedSize(last', Len(c)) > MaxSize)
        => /\ last'.out = "MaxSizeException"
           /\ c' = c
           /\ cap' = cap
           /\ alive' = alive]_vars

C1_Witness ==
  /\ Finite
  /\ alive
  /\ Len(c) = MaxSize
  /\ MaxSize >= 2
  /\ last.op = "insert_range"
  /\ last.out = "MaxSizeException"
  /\ Len(last.arg) = 1

\* C2: a constructor of a container with limit MaxSize produces an object
\* iff the requested length is at most MaxSize; the object then has exactly
\* that length and holds the source's elements in order (or N copies of the
\* fill or default value); otherwise MaxSizeException is thrown and there is
\* no object.  Without a limit only the MaxSizeException part differs: it is
\* never thrown.
C2_ConstructIffFits ==
  (last.op \in CtorOps) =>
    /\ Finite => ((last.out = "ok") <=> (last.n <= MaxSize))
    /\ (last.out = "MaxSizeException") <=> (Finite /\ last.n > MaxSize)
    /\ alive <=> (last.out = "ok")
    /\ alive => HoldsNewElements(c, last)
    /\ (last.op = "ctor_size" /\ alive) => \A i \in 1 .. Len(c) : c[i] = 0

C2_Witness ==
  /\ last.op = "ctor_move"
  /\ alive
  /\ Finite
  /\ Len(last.arg) = MaxSize
  /\ c = last.arg
  /\ \E i \in 1 .. Len(c) : c[i] # 0

\* C3: insert(pos, value), emplace, emplace_back and push_back throw
\* MaxSizeException iff size() = MaxSize, leaving content unchanged; below
\* MaxSize they succeed, the size grows by one, the new element is at pos
\* (the end for emplace_back and push_back) and the others keep their order.
C3_SingleInsert ==
  [][(last'.op \in SingleInsertOps) =>
       /\ (last'.out = "MaxSizeException") <=> (Len(c) = MaxSize)
       /\ (last'.out = "MaxSizeException") => (c' = c /\ cap' = cap)
       /\ (last'.op \in {"emplace_back", "push_back"}) => last'.pos = Len(c)
       /\ (Len(c) < MaxSize) =>
            /\ last'.out = "ok"
            /\ Len(c') = Len(c) + 1
            /\ c'[last'.pos + 1] = last'.val
            /\ InsertedAt(c, c', last')]_vars

C3_Witness ==
  /\ last.op = "insert_value"
  /\ last.out = "ok"
  /\ Finite
  /\ Len(c) = MaxSize
  /\ last.pos = 1
  /\ last.val # c[1]

\* C4: insert(pos, count, value), insert(pos, begin, end) and insert(pos,
\* list) throw MaxSizeException iff MaxSize - size() is less than the number
\* of elements to insert, whatever pos is; a rejected call changes nothing,
\* an accepted one puts exactly the requested elements together at pos in
\* source order and the size grows by their number.
C4_MultiInsert ==
  [][(last'.op \in MultiInsertOps) =>
       /\ (last'.out = "MaxSizeException")
            <=> (Finite /\ MaxSize - Len(c) < last'.n)
       /\ (last'.out # "ok") => (c' = c /\ cap' = cap)
       /\ (Finite /\ MaxSize - Len(c) >= last'.n) => last'.out = "ok"
       /\ (last'.out = "ok") => InsertedAt(c, c', last')]_vars

C4_Witness ==
  /\ last.op = "insert_size_value"
  /\ last.out = "ok"
  /\ Finite
  /\ last.n = 1
  /\ last.pos = 1
  /\ Len(c) = MaxSize
  /\ c[1] # c[2]

\* C5: operator= (copy, move, list) and the three assign overloads replace
\* the whole content by the source when the new length is at most MaxSize
\* and throw MaxSizeException iff it is larger; after a rejected call the
\* object's content and size are what they were.
C5_AssignReplacesOrKeeps ==
  [][(last'.op \in AssignOps) =>
       /\ (last'.out = "MaxSizeException")
            <=> (Finite /\ last'.n > MaxSize)
       /\ (last'.out # "ok") => (c' = c /\ cap' = cap)
       /\ (Finite /\ last'.n <= MaxSize) => last'.out = "ok"
       /\ (last'.out = "ok") => HoldsNewElements(c', last')]_vars

C5_Witness ==
  /\ last.op = "assign_list"
  /\ last.out = "MaxSizeException"
  /\ Finite
  /\ alive
  /\ Len(c) = MaxSize
  /\ \E i \in 1 .. Len(c) : c[i] # 0

\* C6: a move construction or move assignment that is rejected because the
\* source is longer than MaxSize leaves the source as it was.
C6_RejectedMoveKeepsSource ==
  (last.op \in MoveOps /\ last.out = "MaxSizeException")
    => (last.src = last.arg /\ Len(last.src) > MaxSize)

C6_Witness ==
  /\ last.op = "assign_move"
  /\ last.out = "MaxSizeException"
  /\ alive
  /\ last.src = last.arg
  /\ Len(last.src) > MaxSize

\* C7: resize(n) and resize(n, value) throw MaxSizeException iff n > MaxSize
\* and then change nothing; otherwise the size becomes exactly n, the first
\* min(old size, n) elements stay and the new slots hold the default value
\* (resize(n)) or the given value (resize(n, value)).
C7_Resize ==
  [][(last'.op \in ResizeOps) =>
       /\ (last'.out = "MaxSizeException")
            <=> (Finite /\ last'.n > MaxSize)
       /\ (last'.out # "ok") => (c' = c /\ cap' = cap)
       /\ (Finite /\ last'.n <= MaxSize) => last'.out = "ok"
       /\ (last'.out = "ok") =>
            /\ Len(c') = last'.n
            /\ \A i \in 1 .. Len(c') :
                 c'[i] = IF i <= Len(c) THEN c[i]
                         ELSE IF last'.op = "resize" THEN 0
                         ELSE last'.val]_vars

C7_Witness ==
  /\ last.op = "resize_value"
  /\ last.out = "ok"
  /\ Finite
  /\ Len(c) = MaxSize
  /\ Len(c) >= 2
  /\ c[1] = 0
  /\ c[Len(c)] # 0
  /\ last.val # 0

\* C8: reserve(n) throws MaxSizeException iff n > MaxSize; reserve never
\* changes the size or the elements, and a rejected reserve leaves the
\* capacity unchanged too.
C8_Reserve ==
  [][(last'.op = "reserve") =>
       /\ (last'.out = "MaxSizeException")
            <=> (Finite /\ last'.n > MaxSize)
       /\ c' = c
       /\ (last'.out # "ok") => cap' = cap
       /\ (Finite /\ last'.n <= MaxSize) =>
            (last'.out = "ok" /\ cap' >= last'.n)]_vars

C8_Witness ==
  /\ last.op = "reserve"
  /\ last.out = "ok"
  /\ Finite
  /\ last.n = MaxSize
  /\ cap = MaxSize
  /\ Len(c) < cap

\* the size a rejected call was refused for: the requested size, the length
\* of the source, or for a single element the size the container has
AttemptedSizes(l, size) ==
  IF l.op \in SingleInsertOps THEN {size, size + 1} ELSE {l.n}

\* C9: every rejected call raises MaxSizeException, and the exception carries
\* the configured maximum MaxSize and the attempted size (the requested size
\* or the length of the source that was refused).
C9_ErrorCarriesAttemptedSizeAndMax ==
  (last.out = "MaxSizeException") =>
    /\ Len(last.err) >= 2
    /\ last.err[1] = MaxSize
    /\ \E i \in 2 .. Len(last.err) :
         last.err[i] \in AttemptedSizes(last, Len(c))

\* the call described by l made on the base container itself
BaseCall(l, content, capacity) ==
  CASE l.op = "ctor_default" -> R("ok", <<>>, 0, <<>>, <<>>)
    [] l.op = "ctor_size" -> vector_ctor_n(l.n, DefaultValue)
    [] l.op = "ctor_size_value" -> vector_ctor_n(l.n, l.val)
    [] l.op \in {"ctor_copy", "ctor_range", "ctor_list"} ->
         vector_ctor_copy(l.arg)
    [] l.op = "ctor_move" -> vector_ctor_move(l.arg)
    [] l.op \in {"assign_copy", "assign_op_list", "assign_range",
                 "assign_list"} ->
         vector_assign_copy(content, capacity, l.arg)
    [] l.op = "assign_move" -> vector_assign_move(content, capacity, l.arg)
    [] l.op = "assign_size_value" ->
         vector_assign_n(content, capacity, l.n, l.val)
    [] l.op \in SingleInsertOps \cup {"insert_size_value"} ->
         vector_insert_n(content, capacity, l.pos, l.n, l.val)
    [] l.op \in SourceInsertOps ->
         vector_insert_range(content, capacity, l.pos, l.arg)
    [] l.op = "reserve" -> vector_reserve(content, capacity, l.n)
    [] l.op \in ResizeOps -> vector_resize(content, capacity, l.n, l.val)

\* C10: with MaxSize = the largest size_type value no constructor and no
\* member function raises MaxSizeException, and every call leaves the
\* content, the capacity, the source and the outcome that the same call on
\* the base container leaves.
C10_UnboundedIsBaseContainer ==
  [][(MaxSize = SizeTypeMax /\ last'.op # "none") =>
       /\ last'.out # "MaxSizeException"
       /\ last'.out = BaseCall(last', c, cap).out
       /\ c' = BaseCall(last', c, cap).c
       /\ cap' = BaseCall(last', c, cap).cap
       /\ last'.src = BaseCall(last', c, cap).src]_vars

C10_Witness ==
  /\ MaxSize = SizeTypeMax
  /\ alive
  /\ last.op = "insert_size_value"
  /\ last.n = SizeTypeMax
  /\ last.out = "length_error"
  /\ Len(c) = MaxLen

(***************************************************************************)
(* The hex codec: fmt::formatter<qtils::Hex> (include/qtils/hex.hpp) turns *)
(* bytes into text, unhex / unhex0x (include/qtils/unhex.hpp) turn text    *)
(* into bytes.  A text is the sequence of its characters, a byte is a      *)
(* number in 0 .. 255, and the digits of a byte are computed.              *)
(***************************************************************************)
\* ---------------------------------------------------------- codec bounds
\* longest byte sequence that is encoded
MaxBytes == 6
\* number of distinct byte values in the encoded sequences
NumByteVals == 2
\* longest text handed to the decoder directly
MaxText == 4
\* longest format specification handed to parse
MaxSpecLen == 3

\* ------------------------------------------------------ codec value sets
ByteOf(i) == (i * 171) % 256
ByteVals == {ByteOf(i) : i \in 0 .. (NumByteVals - 1)}
ByteSeqs == UNION {[1 .. k -> ByteVals] : k \in 0 .. MaxBytes}
TextChars == {"0", "x", "a", "F"}
Texts == UNION {[1 .. k -> TextChars] : k \in 0 .. MaxText}
SpecChars == {"0", "x", "X", "y"}
SpecStrings == UNION {[1 .. k -> SpecChars] : k \in 0 .. MaxSpecLen}
ArrSizes == 0 .. MaxLimit

LowerDigits ==
  <<"0", "1", "2", "3", "4", "5", "6", "7", "8", "9", "a", "b", "c", "d", "e", "f">>
UpperDigits ==
  <<"0", "1", "2", "3", "4", "5", "6", "7", "8", "9", "A", "B", "C", "D", "E", "F">>
Ellipsis == "..."
Prefix0x == <<"0", "x">>
EmptyMessage == <<"<", "e", "m", "p", "t", "y", ">">>

\* ---------------------------------------------- fmt::formatter<qtils::Hex>
\* the formatter object as constructed
DefaultFormatter == [prefix |-> FALSE, full |-> FALSE, lower |-> TRUE]

\* the specifiers the formatter documents
Specifiers ==
  {<<>>, <<"x">>, <<"x", "x">>, <<"X">>, <<"X", "X">>, <<"0">>,
   <<"0", "x">>, <<"0", "x", "x">>, <<"0", "X">>, <<"0", "X", "X">>}

\* it == end or *it == '}'
AtEnd(s, it) == it > Len(s) \/ s[it] = "}"

Parsed(out, f, it) ==
  [out |-> out, prefix |-> f.prefix, full |-> f.full, lower |-> f.lower,
   it |-> it]

\* parse that takes the first x or X as the mark of the full form
parse_full_on_first_letter(s) ==
  LET f0 == DefaultFormatter IN
  IF AtEnd(s, 1) THEN Parsed("ok", f0, 1)
  ELSE
    LET zero == s[1] = "0"
        f1 == [f0 EXCEPT !.prefix = zero]
        i1 == IF zero THEN 2 ELSE 1
    IN
    IF AtEnd(s, i1) THEN Parsed("ok", f1, i1)
    ELSE
      LET isx == s[i1] \in {"x", "X"}
          f2 == IF isx THEN [f1 EXCEPT !.lower = (s[i1] = "x"), !.full = TRUE] ELSE f1
          i2 == IF isx THEN i1 + 1 ELSE i1
      IN
      IF isx /\ AtEnd(s, i2) THEN Parsed("ok", f2, i2)
      ELSE
        LET twice == isx /\ ((s[i2] = "x" /\ f2.lower) \/ (s[i2] = "X" /\ ~f2.lower))
            f3 == IF twice THEN [f2 EXCEPT !.full = TRUE] ELSE f2
            i3 == IF twice THEN i2 + 1 ELSE i2
        IN
        IF AtEnd(s, i3) THEN Parsed("ok", f3, i3)
        ELSE Parsed("format_error", f3, i3)

\* parse: s is the text after the colon of the replacement field
parse(s) ==
  LET f0 == DefaultFormatter IN
  IF AtEnd(s, 1) THEN Parsed("ok", f0, 1)
  ELSE
    LET zero == s[1] = "0"
        f1 == [f0 EXCEPT !.prefix = zero]
        i1 == IF zero THEN 2 ELSE 1
    IN
    IF AtEnd(s, i1) THEN Parsed("ok", f1, i1)
    ELSE
      LET isx == s[i1] \in {"x", "X"}
          f2 == IF isx THEN [f1 EXCEPT !.lower = (s[i1] = "x")] ELSE f1
          i2 == IF isx THEN i1 + 1 ELSE i1
      IN
      IF isx /\ AtEnd(s, i2) THEN Parsed("ok", f2, i2)
      ELSE
        LET twice == isx /\ ((s[i2] = "x" /\ f2.lower) \/ (s[i2] = "X" /\ ~f2.lower))
            f3 == IF twice THEN [f2 EXCEPT !.full = TRUE] ELSE f2
            i3 == IF twice THEN i2 + 1 ELSE i2
        IN
        IF AtEnd(s, i3) THEN Parsed("ok", f3, i3)
        ELSE Parsed("format_error", f3, i3)

kHead == 2
kTail == 2
kSmall == 1

\* the two digits of every byte, the low one first
write_bytes_low_digit_first(lower, bytes) ==
  [i \in 1 .. 2 * Len(bytes) |->
     LET byte == bytes[(i + 1) \div 2]
         digits == IF lower THEN LowerDigits ELSE UpperDigits
     IN IF i % 2 = 1 THEN digits[(byte % 16) + 1] ELSE digits[(byte \div 16) + 1]]

\* "{:02x}" / "{:02X}" of every byte
write_bytes(lower, bytes) ==
  [i \in 1 .. 2 * Len(bytes) |->
     LET byte == bytes[(i + 1) \div 2]
         digits == IF lower THEN LowerDigits ELSE UpperDigits
     IN IF i % 2 = 1 THEN digits[(byte \div 16) + 1] ELSE digits[(byte % 16) + 1]]

first(span, n) == SubSeq(span, 1, n)

\* the tail taken from the front of the span
last_n_from_front(span, n) == SubSeq(span, 1, n)

last_n(span, n) == SubSeq(span, Len(span) - n + 1, Len(span))

\* an empty span that is written as nothing when there is no prefix
write_empty_as_nothing(prefix) == IF prefix THEN Prefix0x ELSE <<>>

\* detail::write(out, prefix ? "0x" : "<empty>")
write_empty(prefix) == IF prefix THEN Prefix0x ELSE EmptyMessage

\* format whose abbreviated form is in lowercase whatever the case asked for
format_abbreviated_in_lowercase(f, span) ==
  IF span = <<>> THEN write_empty(f.prefix)
  ELSE
    (IF f.prefix THEN Prefix0x ELSE <<>>) \o
    (IF f.full \/ Len(span) < kHead + kTail + kSmall
       THEN write_bytes(f.lower, span)
       ELSE write_bytes(TRUE, first(span, kHead)) \o <<Ellipsis>> \o
            write_bytes(TRUE, last_n(span, kTail)))

\* format that still writes a span of kHead + kTail + kSmall bytes in full
format_full_up_to_five(f, span) ==
  IF span = <<>> THEN write_empty(f.prefix)
  ELSE
    (IF f.prefix THEN Prefix0x ELSE <<>>) \o
    (IF f.full \/ Len(span) <= kHead + kTail + kSmall
       THEN write_bytes(f.lower, span)
       ELSE write_bytes(f.lower, first(span, kHead)) \o <<Ellipsis>> \o
            write_bytes(f.lower, last_n(span, kTail)))

format(f, span) ==
  IF span = <<>> THEN write_empty(f.prefix)
  ELSE
    (IF f.prefix THEN Prefix0x ELSE <<>>) \o
    (IF f.full \/ Len(span) < kHead + kTail + kSmall
       THEN write_bytes(f.lower, span)
       ELSE write_bytes(f.lower, first(span, kHead)) \o <<Ellipsis>> \o
            write_bytes(f.lower, last_n(span, kTail)))

\* ------------------------------------------------------- unhex / unhex0x
MAX_UNHEX_SIZE == 64 * 1024 * 1024

starts_with_0x(s) == Len(s) >= 2 /\ SubSeq(s, 1, 2) = Prefix0x
remove_prefix(s, n) == SubSeq(s, n + 1, Len(s))

unhexSize(s) ==
  LET t == IF starts_with_0x(s) THEN remove_prefix(s, 2) ELSE s
  IN Len(t) \div 2

\* boost's hex_char_to_int: the value of a hex digit of either case, -1 for
\* a character that makes it throw non_hex_input
hex_char_to_int(ch) ==
  IF \E i \in 1 .. 16 : LowerDigits[i] = ch
    THEN (CHOOSE i \in 1 .. 16 : LowerDigits[i] = ch) - 1
  ELSE IF \E i \in 1 .. 16 : UpperDigits[i] = ch
    THEN (CHOOSE i \in 1 .. 16 : UpperDigits[i] = ch) - 1
  ELSE -1

\* the pair of characters that makes byte number k is made of hex digits
GoodPair(s, k) ==
  hex_char_to_int(s[2 * k - 1]) >= 0 /\ hex_char_to_int(s[2 * k]) >= 0

\* boost::algorithm::unhex(s.begin(), s.end(), t.begin()) on a text of even
\* length: every pair of digits is decoded and stored before the next pair
\* is looked at, and the first pair that is not two hex digits throws
boost_unhex(s, t) ==
  LET count == Len(s) \div 2
      bad == {k \in 1 .. count : ~GoodPair(s, k)}
      done == IF bad = {} THEN count
              ELSE (CHOOSE k \in bad : \A j \in bad : k <= j) - 1
  IN [out |-> IF bad = {} THEN "ok" ELSE "non_hex_input",
      t |-> [i \in 1 .. Len(t) |->
               IF i <= done
                 THEN 16 * hex_char_to_int(s[2 * i - 1]) + hex_char_to_int(s[2 * i])
                 ELSE t[i]]]

\* a destination: kind "resizable" is an SLBuffer<max> (max = SizeTypeMax
\* for ByteVec and for std::vector), kind "fixed" is a ByteArr<max>
Dest(kind, max, content) == [kind |-> kind, max |-> max, c |-> content]

\* the outcome of a decoding call: out is "ok", the UnhexError returned, or
\* the exception that left the call; t is the destination afterwards
Unhexed(out, t) == [out |-> out, t |-> t]

UnhexErrors ==
  {"UNEXPECTED_0X", "REQUIRED_0X", "ODD_LENGTH", "TOO_SHORT", "TOO_LONG",
   "FIXED_SIZE_TOO_LONG", "NON_HEX"}

\* the size check that lets a text shorter than the destination pass
fixed_size_check_allows_short(t, count) ==
  IF count > Len(t.c) THEN "TOO_LONG" ELSE "ok"

\* the size check of the branch for a destination without resize
fixed_size_check(t, count) ==
  IF count < Len(t.c) THEN "TOO_SHORT"
  ELSE IF count > Len(t.c) THEN "TOO_LONG"
  ELSE "ok"

\* unhex that looks at the length of the text before it looks at its prefix
unhex_length_before_prefix(t, s, maxsize, bad_alloc) ==
  IF Len(s) % 2 # 0 THEN Unhexed("ODD_LENGTH", t)
  ELSE IF starts_with_0x(s) THEN Unhexed("UNEXPECTED_0X", t)
  ELSE
    LET count == unhexSize(s)
        decode(u) ==
          LET b == boost_unhex(s, u.c)
          IN Unhexed(IF b.out = "ok" THEN "ok" ELSE "NON_HEX",
                     [u EXCEPT !.c = b.t])
    IN
    IF t.kind = "resizable" THEN
      IF count > maxsize THEN Unhexed("FIXED_SIZE_TOO_LONG", t)
      ELSE
        LET r == resize(t.max, t.c, Len(t.c), count) IN
        IF r.out # "ok" THEN Unhexed(r.out, [t EXCEPT !.c = r.c])
        ELSE IF bad_alloc /\ count > Len(t.c) THEN Unhexed("TOO_LONG", t)
        ELSE decode([t EXCEPT !.c = r.c])
    ELSE
      LET checked == fixed_size_check(t, count) IN
      IF checked # "ok" THEN Unhexed(checked, t) ELSE decode(t)

\* unhex(T &t, std::string_view s, size_t max_size); bad_alloc says whether
\* the allocation of a growing resize fails
unhex(t, s, maxsize, bad_alloc) ==
  IF starts_with_0x(s) THEN Unhexed("UNEXPECTED_0X", t)
  ELSE IF Len(s) % 2 # 0 THEN Unhexed("ODD_LENGTH", t)
  ELSE
    LET count == unhexSize(s)
        decode(u) ==
          LET b == boost_unhex(s, u.c)
          IN Unhexed(IF b.out = "ok" THEN "ok" ELSE "NON_HEX",
                     [u EXCEPT !.c = b.t])
    IN
    IF t.kind = "resizable" THEN
      IF count > maxsize THEN Unhexed("FIXED_SIZE_TOO_LONG", t)
      ELSE
        LET r == resize(t.max, t.c, Len(t.c), count) IN
        IF r.out # "ok" THEN Unhexed(r.out, [t EXCEPT !.c = r.c])
        ELSE IF bad_alloc /\ count > Len(t.c) THEN Unhexed("TOO_LONG", t)
        ELSE decode([t EXCEPT !.c = r.c])
    ELSE
      LET checked == fixed_size_check(t, count) IN
      IF checked # "ok" THEN Unhexed(checked, t) ELSE decode(t)

\* unhex0x that hands the text on with its prefix
unhex0x_keeps_prefix(t, s, optional_0x, bad_alloc) ==
  IF starts_with_0x(s) \/ optional_0x
    THEN unhex(t, s, MAX_UNHEX_SIZE, bad_alloc)
    ELSE Unhexed("REQUIRED_0X", t)

\* unhex0x(T &t, std::string_view s, bool optional_0x)
unhex0x(t, s, optional_0x, bad_alloc) ==
  IF starts_with_0x(s)
    THEN unhex(t, remove_prefix(s, 2), MAX_UNHEX_SIZE, bad_alloc)
  ELSE IF ~optional_0x THEN Unhexed("REQUIRED_0X", t)
  ELSE unhex(t, s, MAX_UNHEX_SIZE, bad_alloc)

\* T t; of the value-returning overloads
Fresh(kind, max) ==
  Dest(kind, max, IF kind = "fixed" THEN Fill(max, 0) ELSE <<>>)

\* unhex<T>(s) and SLBuffer::fromHex / ByteArr::fromHex
unhex_value(kind, max, s, bad_alloc) ==
  unhex(Fresh(kind, max), s, MAX_UNHEX_SIZE, bad_alloc)

\* unhex0x<T>(s) and ByteArr::fromHexWithPrefix
unhex0x_value(kind, max, s, bad_alloc) ==
  unhex0x(Fresh(kind, max), s, FALSE, bad_alloc)

\* ------------------- fmt::formatter<qtils::Hex> with alignment and width
\* the characters of a format specification with alignment and width
WidthSpecChars == SpecChars \cup {"<", ">", "^", "9", ";", "{", "}"}

is_align(ch) == ch \in {"<", ">", "^"}
is_digit(ch) == \E i \in 1 .. 10 : LowerDigits[i] = ch

\* a "}" ends the replacement field unless it closes the "{" of a dynamic
\* width: a specification holds no other "}"
ClosesWidth(s, i) ==
  \E j \in 1 .. (i - 1) :
    s[j] = "{" /\ \A k \in (j + 1) .. (i - 1) : is_digit(s[k])
WidthSpecStrings ==
  {s \in UNION {[1 .. k -> WidthSpecChars] : k \in 0 .. MaxSpecLen} :
     \A i \in 1 .. Len(s) : s[i] = "}" => ClosesWidth(s, i)}

\* it != end
Inside(s, it) == it <= Len(s)

\* while (it != end && is_digit(*it)) { w = w * 10 + (*it - '0'); ++it; }
RECURSIVE parse_digits(_, _, _)
parse_digits(s, it, w) ==
  IF Inside(s, it) /\ is_digit(s[it])
    THEN parse_digits(s, it + 1, w * 10 + hex_char_to_int(s[it]))
    ELSE [w |-> w, it |-> it]

\* the formatter object as constructed
DefaultWidthFormatter ==
  [prefix |-> FALSE, full |-> FALSE, lower |-> TRUE, fill |-> " ",
   align |-> "<", width |-> 0, dynamic_width |-> FALSE, width_arg_id |-> -1]

\* the formatter f when parse stops at position it: by returning ("ok") or by
\* fail() ("format_error")
WidthParsed(out, f, it) == [out |-> out, f |-> f, it |-> it]

\* optional [fill][align]
parse_align(s, f) ==
  IF Inside(s, 1) /\ s[1] # "}" /\ Inside(s, 2) /\ s[2] # "}" /\ is_align(s[2])
    THEN WidthParsed("ok", [f EXCEPT !.fill = s[1], !.align = s[2]], 3)
  ELSE IF Inside(s, 1) /\ s[1] # "}" /\ is_align(s[1])
    THEN WidthParsed("ok", [f EXCEPT !.align = s[1]], 2)
  ELSE WidthParsed("ok", f, 1)

\* optional width: static digits that start with 1-9, or "{}" / "{n}";
\* next_arg_id stands for the index ctx.next_arg_id() hands out
next_arg_id == 1
parse_width_field(s, f, it) ==
  IF Inside(s, it) /\ is_digit(s[it]) /\ s[it] # "0" THEN
    LET d == parse_digits(s, it, 0)
    IN WidthParsed("ok", [f EXCEPT !.width = d.w], d.it)
  ELSE IF Inside(s, it) /\ s[it] = "{" THEN
    IF ~Inside(s, it + 1) THEN WidthParsed("format_error", f, it + 1)
    ELSE
      LET g == [f EXCEPT !.dynamic_width = TRUE] IN
      IF s[it + 1] = "}"
        THEN WidthParsed("ok", [g EXCEPT !.width_arg_id = next_arg_id], it + 2)
      ELSE IF ~is_digit(s[it + 1]) THEN WidthParsed("format_error", g, it + 1)
      ELSE
        LET d == parse_digits(s, it + 1, 0) IN
        IF ~Inside(s, d.it) \/ s[d.it] # "}"
          THEN WidthParsed("format_error", g, d.it)
          ELSE WidthParsed("ok", [g EXCEPT !.width_arg_id = d.w], d.it + 1)
  ELSE WidthParsed("ok", f, it)

\* the custom hex part that takes any second x or X as the full form
parse_custom_any_second_letter(s, f, it) ==
  IF AtEnd(s, it) THEN WidthParsed("ok", f, it)
  ELSE
    LET zero == s[it] = "0"
        f1 == IF zero THEN [f EXCEPT !.prefix = TRUE] ELSE f
        i1 == IF zero THEN it + 1 ELSE it
    IN
    IF zero /\ AtEnd(s, i1) THEN WidthParsed("ok", f1, i1)
    ELSE IF s[i1] \in {"x", "X"} THEN
      LET f2 == [f1 EXCEPT !.lower = (s[i1] = "x")]
          i2 == i1 + 1
      IN
      IF AtEnd(s, i2) THEN WidthParsed("ok", f2, i2)
      ELSE IF s[i2] \in {"x", "X"}
        THEN WidthParsed("ok", [f2 EXCEPT !.full = TRUE], i2 + 1)
      ELSE WidthParsed("format_error", f2, i2)
    ELSE WidthParsed("format_error", f1, i1)

\* optional custom hex part
parse_custom(s, f, it) ==
  IF AtEnd(s, it) THEN WidthParsed("ok", f, it)
  ELSE
    LET zero == s[it] = "0"
        f1 == IF zero THEN [f EXCEPT !.prefix = TRUE] ELSE f
        i1 == IF zero THEN it + 1 ELSE it
    IN
    IF zero /\ AtEnd(s, i1) THEN WidthParsed("ok", f1, i1)
    ELSE IF s[i1] \in {"x", "X"} THEN
      LET f2 == [f1 EXCEPT !.lower = (s[i1] = "x")]
          i2 == i1 + 1
      IN
      IF AtEnd(s, i2) THEN WidthParsed("ok", f2, i2)
      ELSE IF (s[i2] = "x" /\ f2.lower) \/ (s[i2] = "X" /\ ~f2.lower)
        THEN WidthParsed("ok", [f2 EXCEPT !.full = TRUE], i2 + 1)
      ELSE WidthParsed("format_error", f2, i2)
    ELSE WidthParsed("format_error", f1, i1)

\* parse of the formatter with alignment and width
parse_width(s) ==
  LET a == parse_align(s, DefaultWidthFormatter)
      w == parse_width_field(s, a.f, a.it)
      i == IF Inside(s, w.it) /\ s[w.it] = ";" THEN w.it + 1 ELSE w.it
  IN IF w.out # "ok" THEN w ELSE parse_custom(s, w.f, i)

\* fmt takes the iterator parse returns and reports a format error unless
\* the replacement field ends there
parse_format_specs(s) ==
  LET p == parse_width(s)
  IN IF p.out = "ok" /\ ~AtEnd(s, p.it)
       THEN WidthParsed("format_error", p.f, p.it)
       ELSE p

\* --------------------------------------------------------- codec actions
\* the destinations a decoding call is handed: their type and the content
\* they hold before the call
PriorContents(k) == {Fill(k, p) : p \in ByteVals}
Dests ==
  {Dest("resizable", m, x) :
     <<m, x>> \in {y \in MaxSizes \X UNION {PriorContents(k) : k \in ArrSizes} :
                     Len(y[2]) <= y[1]}}
  \cup UNION {{Dest("fixed", n, x) : x \in PriorContents(n)} : n \in ArrSizes}

\* the max_size arguments: none, one byte, and the default
MaxSizeArgs == (0 .. 1) \cup {MAX_UNHEX_SIZE}

\* the allocation of t.resize(count) can fail only when it has to grow
BadAllocs(t, s) ==
  IF t.kind = "resizable" /\ Len(s) \div 2 > Len(t.c) THEN BOOLEAN ELSE {FALSE}

\* the types T of the value-returning overloads
DestTypes ==
  {<<"resizable", m>> : m \in MaxSizes} \cup {<<"fixed", n>> : n \in ArrSizes}

\* no call into the codec is in progress
CodecIdle == hx.op = "none"

CodecCall(call) ==
  /\ hx' = call
  /\ UNCHANGED <<vars, sr, bov>>

InitHex ==
  /\ MaxSize = SizeTypeMax
  /\ alive = FALSE
  /\ c = <<>>
  /\ cap = 0
  /\ last = NoCall
  /\ hx = NoCodec
  /\ sr = NoRefs
  /\ bov = NoBov

\* the caller takes the outcome of the call
CodecReturn ==
  /\ ~CodecIdle
  /\ CodecCall(NoCodec)

\* fmt parses the format specification of a replacement field
Parse ==
  /\ CodecIdle
  /\ \E s \in SpecStrings :
       CodecCall([op |-> "parse", spec |-> s, f |-> parse(s)])

\* fmt::format("{:<spec>}", Hex{span}): parse, then format
Format ==
  /\ CodecIdle
  /\ \E s \in SpecStrings :
       /\ parse(s).out = "ok"
       /\ \E span \in ByteSeqs :
            CodecCall([op |-> "format", spec |-> s, f |-> parse(s),
                       span |-> span, text |-> format(parse(s), span)])

\* unhex(t, s, max_size)
Unhex ==
  /\ CodecIdle
  /\ \E t \in Dests, s \in Texts, maxsize \in MaxSizeArgs :
       \E bad_alloc \in BadAllocs(t, s) :
         CodecCall([op |-> "unhex", t |-> t, s |-> s, max_size |-> maxsize,
                    optional_0x |-> FALSE, bad_alloc |-> bad_alloc,
                    r |-> unhex(t, s, maxsize, bad_alloc)])

\* unhex0x(t, s, optional_0x)
Unhex0x ==
  /\ CodecIdle
  /\ \E t \in Dests, s \in Texts, optional_0x \in BOOLEAN :
       \E bad_alloc \in BadAllocs(t, s) :
         CodecCall([op |-> "unhex0x", t |-> t, s |-> s,
                    max_size |-> MAX_UNHEX_SIZE,
                    optional_0x |-> optional_0x, bad_alloc |-> bad_alloc,
                    r |-> unhex0x(t, s, optional_0x, bad_alloc)])

\* unhex<T>(s), SLBuffer::fromHex(s), ByteArr::fromHex(s)
UnhexValue ==
  /\ CodecIdle
  /\ \E T \in DestTypes, s \in Texts :
       \E bad_alloc \in BadAllocs(Fresh(T[1], T[2]), s) :
         CodecCall([op |-> "unhex_value", t |-> Fresh(T[1], T[2]), s |-> s,
                    max_size |-> MAX_UNHEX_SIZE,
                    optional_0x |-> FALSE, bad_alloc |-> bad_alloc,
                    r |-> unhex_value(T[1], T[2], s, bad_alloc)])

\* unhex0x<T>(s), ByteArr::fromHexWithPrefix(s)
Unhex0xValue ==
  /\ CodecIdle
  /\ \E T \in DestTypes, s \in Texts :
       \E bad_alloc \in BadAllocs(Fresh(T[1], T[2]), s) :
         CodecCall([op |-> "unhex0x_value", t |-> Fresh(T[1], T[2]), s |-> s,
                    max_size |-> MAX_UNHEX_SIZE,
                    optional_0x |-> FALSE, bad_alloc |-> bad_alloc,
                    r |-> unhex0x_value(T[1], T[2], s, bad_alloc)])

\* the types a byte sequence is decoded back into: a vector, a buffer the
\* bytes just fit, an array of that many bytes
RoundTripTypes(span) ==
  {<<"resizable", SizeTypeMax>>, <<"resizable", Len(span)>>,
   <<"fixed", Len(span)>>}

\* the text fmt::format made of a byte sequence is decoded again, by
\* unhex0x<T> when it was made with the prefix and by unhex<T> otherwise
RoundTrip ==
  /\ CodecIdle
  /\ \E s \in SpecStrings :
       /\ parse(s).out = "ok"
       /\ \E span \in ByteSeqs :
            \E T \in RoundTripTypes(span) :
              LET f == parse(s)
                  text == format(f, span)
              IN CodecCall([op |-> "roundtrip", spec |-> s, f |-> f,
                            span |-> span, text |-> text,
                            t |-> Fresh(T[1], T[2]),
                            max_size |-> MAX_UNHEX_SIZE,
                            r |-> IF f.prefix
                                    THEN unhex0x_value(T[1], T[2], text, FALSE)
                                    ELSE unhex_value(T[1], T[2], text, FALSE)])

\* .value() of an outcome::result: the value, or a throw for an error
result_value(r) ==
  IF r.out = "ok" THEN [out |-> "ok", bytes |-> r.t.c, error |-> "none"]
  ELSE [out |-> "throws", bytes |-> <<>>, error |-> r.out]

\* operator""_unhex(const char *c, size_t s)
operator_unhex(s) ==
  IF Len(s) > 2 /\ s[1] = "0" /\ s[2] = "x"
    THEN result_value(unhex0x_value("resizable", SizeTypeMax, s, FALSE))
    ELSE result_value(unhex_value("resizable", SizeTypeMax, s, FALSE))

\* the literals h and "0x" h
UnhexLiteral ==
  /\ CodecIdle
  /\ \E h \in Texts :
       CodecCall([op |-> "_unhex", h |-> h, plain |-> operator_unhex(h),
                  prefixed |-> operator_unhex(Prefix0x \o h)])

\* SLBuffer::toHex(): fmt::format("{:xx}", Hex(*this))
toHex(bytes) == format(parse(<<"x", "x">>), bytes)

\* toHex() of a ByteVec
ToHex ==
  /\ CodecIdle
  /\ \E span \in ByteSeqs :
       CodecCall([op |-> "toHex", span |-> span, text |-> toHex(span)])

\* ------------------------------ fmt::formatter<qtils::Hex>::format, width
\* number of bits of int
IntWidth == 16

\* static_cast<int>(v) of an integral v
static_cast_int(v) ==
  LET m == v % (2 ^ IntWidth)
  IN IF m >= 2 ^ (IntWidth - 1) THEN m - 2 ^ IntWidth ELSE m

\* sizeof(kEllipsis) - 1: the UTF-8 bytes of the ellipsis
kEllipsisBytes == 3

\* the argument ctx.arg(width_arg_id) gives: an integral value of some type,
\* within the range of int or beyond it, or something that is not integral
DynValues == {-1, 0, 3, 12, 2 ^ (IntWidth - 1), 2 ^ IntWidth + 12}
DynArgs ==
  {[integral |-> TRUE, v |-> v] : v \in DynValues}
  \cup {[integral |-> FALSE, v |-> 0]}
NoArg == [integral |-> FALSE, v |-> 0]

\* the lambda content_len_bytes
content_len_bytes(f, span) ==
  IF span = <<>> THEN (IF f.prefix THEN 2 ELSE 7)
  ELSE
    (IF f.prefix THEN 2 ELSE 0) +
    (IF f.full \/ Len(span) < kHead + kTail + kSmall
       THEN Len(span) * 2
       ELSE kHead * 2 + kEllipsisBytes + kTail * 2)

\* the lambda write_content
write_content(f, span) ==
  IF span = <<>> THEN (IF f.prefix THEN Prefix0x ELSE EmptyMessage)
  ELSE
    (IF f.prefix THEN Prefix0x ELSE <<>>) \o
    (IF f.full \/ Len(span) < kHead + kTail + kSmall
       THEN write_bytes(f.lower, span)
       ELSE write_bytes(f.lower, first(span, kHead)) \o <<Ellipsis>> \o
            write_bytes(f.lower, last_n(span, kTail)))

\* the lambda write_n_fill
write_n_fill(f, n) == Fill(n, f.fill)

\* the tail of format: the content and the padding in the order of align
align_content(f, content, pad) ==
  IF f.align = "<" THEN content \o write_n_fill(f, pad)
  ELSE IF f.align = ">" THEN write_n_fill(f, pad) \o content
  ELSE IF pad <= 0 THEN content
  ELSE
    LET left == pad \div 2
        right == pad - left
    IN write_n_fill(f, left) \o content \o write_n_fill(f, right)

\* format(const std::span<const uint8_t> &span, format_context &ctx), arg
\* being what ctx.arg(width_arg_id) gives
format_width(f, span, arg) ==
  IF f.dynamic_width /\ ~arg.integral
    THEN [out |-> "format_error", text |-> <<>>]
  ELSE
    LET dyn == static_cast_int(arg.v)
        w == IF f.dynamic_width THEN (IF dyn > 0 THEN dyn ELSE 0) ELSE f.width
        len == content_len_bytes(f, span)
        pad == IF w > len THEN w - len ELSE 0
    IN [out |-> "ok", text |-> align_content(f, write_content(f, span), pad)]

\* the spans handed to the formatter with width
WidthSpans == UNION {PriorContents(k) : k \in 0 .. MaxBytes}

\* fmt::format with a specification the formatter accepts
FormatWidth ==
  /\ CodecIdle
  /\ \E s \in WidthSpecStrings :
       LET p == parse_format_specs(s) IN
       /\ p.out = "ok"
       /\ \E span \in WidthSpans :
            \E arg \in (IF p.f.dynamic_width THEN DynArgs ELSE {NoArg}) :
              CodecCall([op |-> "format_width", spec |-> s, f |-> p.f,
                         span |-> span, arg |-> arg,
                         r |-> format_width(p.f, span, arg)])

\* fmt parses a format specification with the formatter that knows
\* alignment and width
ParseWidth ==
  /\ CodecIdle
  /\ \E s \in WidthSpecStrings :
       CodecCall([op |-> "parse_width", spec |-> s,
                  p |-> parse_format_specs(s)])

NextHex ==
  \/ Parse
  \/ ParseWidth
  \/ FormatWidth
  \/ ToHex
  \/ UnhexLiteral
  \/ Format
  \/ Unhex
  \/ Unhex0x
  \/ UnhexValue
  \/ Unhex0xValue
  \/ RoundTrip
  \/ CodecReturn

hvars == <<MaxSize, alive, c, cap, last, hx, sr, bov>>

SpecHex == InitHex /\ [][NextHex]_hvars

InPlaceOps == {"unhex", "unhex0x"}
ValueOps == {"unhex_value", "unhex0x_value"}
DecodeOps == InPlaceOps \cup ValueOps

\* C12: when in-place decoding returns a validation error, the destination
\* has the size and the bytes it had before the call, whether it is
\* resizable or of fixed length
C12_FailedDecodeKeepsDestination ==
  (hx.op \in InPlaceOps /\ hx.r.out \in UnhexErrors)
    => hx.r.t = hx.t

\* the text a decoding call hands to the digit decoder: unhex0x strips the
\* prefix first
Payload(h) ==
  IF h.op \in {"unhex0x", "unhex0x_value"} /\ starts_with_0x(h.s)
    THEN remove_prefix(h.s, 2)
    ELSE h.s

PrefixAndLengthErrors == {"UNEXPECTED_0X", "REQUIRED_0X", "ODD_LENGTH"}

\* C13: decoding into a resizable size-limited buffer whose ceiling is
\* smaller than the decoded byte count returns the exceeds-maximum error
\* FIXED_SIZE_TOO_LONG as an error result
C13_CeilingIsAnErrorResult ==
  (/\ hx.op \in DecodeOps
   /\ hx.t.kind = "resizable"
   /\ size_check_is_enabled(hx.t.max)
   /\ hx.r.out \notin PrefixAndLengthErrors
   /\ Len(Payload(hx)) \div 2 > hx.t.max)
    => hx.r.out = "FIXED_SIZE_TOO_LONG"

HasNonHex(s) == \E i \in 1 .. Len(s) : hex_char_to_int(s[i]) < 0

\* C14: the value-returning decode of a text whose length after prefix
\* stripping is odd is the odd-length error, and that of a text with a
\* character outside 0-9a-fA-F is an error result, never bytes
C14_StrictDecoding ==
  (hx.op \in ValueOps /\ hx.r.out \notin {"UNEXPECTED_0X", "REQUIRED_0X"})
    => /\ (Len(Payload(hx)) % 2 = 1) => hx.r.out = "ODD_LENGTH"
       /\ HasNonHex(Payload(hx)) => hx.r.out \in UnhexErrors

UnhexOps == {"unhex", "unhex_value"}
Unhex0xOps == {"unhex0x", "unhex0x_value"}

EncodedBytes(h) == Len(Payload(h)) \div 2

\* C16: decoding into a fixed-length destination of N bytes succeeds only
\* when the text encodes exactly N bytes; a text that encodes fewer gives
\* TOO_SHORT, one that encodes more gives TOO_LONG, and the length of the
\* destination never changes
C16_FixedLength ==
  (hx.op \in DecodeOps /\ hx.t.kind = "fixed")
    => /\ Len(hx.r.t.c) = hx.t.max
       /\ hx.r.out = "ok" => EncodedBytes(hx) = hx.t.max
       /\ hx.r.out \notin PrefixAndLengthErrors
            => /\ EncodedBytes(hx) < hx.t.max => hx.r.out = "TOO_SHORT"
               /\ EncodedBytes(hx) > hx.t.max => hx.r.out = "TOO_LONG"

C16_Witness ==
  /\ hx.op = "unhex_value"
  /\ hx.t.kind = "fixed"
  /\ hx.t.max = 1
  /\ hx.r.out = "TOO_LONG"
  /\ HasNonHex(hx.s)

\* the digits of a byte sequence as the claims describe them: two digits
\* for every byte, the high one first, in the given letter case
DigitsOf(lower, bytes) ==
  [i \in 1 .. 2 * Len(bytes) |->
     LET b == bytes[(i + 1) \div 2]
         d == IF i % 2 = 1 THEN b \div 16 ELSE b % 16
     IN IF lower THEN LowerDigits[d + 1] ELSE UpperDigits[d + 1]]

PrefixOf(h) == IF h.f.prefix THEN Prefix0x ELSE <<>>

\* the text is every byte of the span
InFull(h) == h.text = PrefixOf(h) \o DigitsOf(h.f.lower, h.span)

\* the text is the first 2 bytes, one ellipsis and the last 2 bytes
Abbreviated(h) ==
  /\ Len(h.span) >= 2
  /\ h.text = PrefixOf(h) \o DigitsOf(h.f.lower, SubSeq(h.span, 1, 2))
                 \o <<Ellipsis>>
                 \o DigitsOf(h.f.lower, SubSeq(h.span, Len(h.span) - 1, Len(h.span)))

\* C17 as the specification states it: in abbreviated mode the encoder
\* abbreviates only when the length exceeds head + tail + 1 = 5 bytes, and
\* every sequence of at most 5 bytes is rendered in full
C17_AbbreviatesAboveFive ==
  (hx.op = "format" /\ hx.span # <<>>)
    => /\ Abbreviated(hx) => Len(hx.span) > kHead + kTail + kSmall
       /\ Len(hx.span) <= kHead + kTail + kSmall => InFull(hx)

\* C17: in abbreviated mode the encoder abbreviates (first 2 bytes, one
\* ellipsis, last 2 bytes) exactly when the length is at least
\* head + tail + 1 = 5 bytes; every non-empty sequence of fewer than 5 bytes
\* is rendered in full regardless of the abbreviation flag
C17_AbbreviatesFromFive ==
  (hx.op = "format" /\ hx.span # <<>>)
    => /\ Abbreviated(hx)
            <=> (~hx.f.full /\ Len(hx.span) >= kHead + kTail + kSmall)
       /\ Len(hx.span) < kHead + kTail + kSmall => InFull(hx)
       /\ InFull(hx) \/ Abbreviated(hx)

C17_Witness ==
  /\ hx.op = "format"
  /\ ~hx.f.full
  /\ Len(hx.span) = kHead + kTail + kSmall
  /\ Abbreviated(hx)
  /\ ~InFull(hx)

AbbreviatedSpecifiers == {<<>>, <<"x">>, <<"X">>, <<"0">>, <<"0", "x">>, <<"0", "X">>}
FullSpecifiers == {<<"x", "x">>, <<"X", "X">>, <<"0", "x", "x">>, <<"0", "X", "X">>}
PrefixSpecifiers == {s \in Specifiers : Len(s) >= 1 /\ s[1] = "0"}
UpperSpecifiers == {s \in Specifiers : \E i \in 1 .. Len(s) : s[i] = "X"}

\* what a specifier asks for, read off its characters
AsksPrefix(s) == s \in PrefixSpecifiers
AsksLower(s) == s \notin UpperSpecifiers

\* the text is all the bytes of the span as the specifier asks for them
SpecInFull(h) ==
  h.text = (IF AsksPrefix(h.spec) THEN Prefix0x ELSE <<>>)
             \o DigitsOf(AsksLower(h.spec), h.span)

\* the text is the first 2 bytes, one ellipsis, the last 2 bytes
SpecAbbreviated(h) ==
  h.text = (IF AsksPrefix(h.spec) THEN Prefix0x ELSE <<>>)
             \o DigitsOf(AsksLower(h.spec), SubSeq(h.span, 1, 2))
             \o <<Ellipsis>>
             \o DigitsOf(AsksLower(h.spec),
                         SubSeq(h.span, Len(h.span) - 1, Len(h.span)))

\* C18: with an abbreviated specifier ({}, x, X, 0, 0x, 0X) a sequence of 5
\* or more bytes renders as its first 2 bytes, one ellipsis and its last 2
\* bytes and a sequence of 1 to 4 bytes renders in full; with a full
\* specifier (xx, XX, 0xx, 0XX) every non-empty sequence renders in full
C18_AbbreviationByLength ==
  (hx.op = "format" /\ hx.span # <<>>)
    => /\ (hx.spec \in AbbreviatedSpecifiers /\ Len(hx.span) >= 5)
            => SpecAbbreviated(hx)
       /\ (hx.spec \in AbbreviatedSpecifiers /\ Len(hx.span) <= 4)
            => SpecInFull(hx)
       /\ hx.spec \in FullSpecifiers => SpecInFull(hx)

C18_Witness ==
  /\ hx.op = "format"
  /\ hx.spec = <<"0", "X">>
  /\ Len(hx.span) = MaxBytes
  /\ SubSeq(hx.span, 1, 2) # SubSeq(hx.span, Len(hx.span) - 1, Len(hx.span))
  /\ SpecAbbreviated(hx)

\* C19: the empty byte sequence is encoded as "<empty>" by every specifier
\* without prefix ({}, x, xx, X, XX) and as "0x" by every specifier with
\* prefix (0, 0x, 0xx, 0X, 0XX), whatever the case and the mode
C19_EmptySequence ==
  (hx.op = "format" /\ hx.span = <<>> /\ hx.spec \in Specifiers)
    => hx.text = (IF hx.spec \in PrefixSpecifiers
                    THEN <<"0", "x">>
                    ELSE <<"<", "e", "m", "p", "t", "y", ">">>)

C19_Witness ==
  /\ hx.op = "format"
  /\ hx.span = <<>>
  /\ hx.spec = <<"X", "X">>
  /\ hx.text = <<"<", "e", "m", "p", "t", "y", ">">>

\* the options the documentation gives for a specifier
Documented(s) ==
  [prefix |-> s \in {<<"0">>, <<"0", "x">>, <<"0", "x", "x">>, <<"0", "X">>,
                      <<"0", "X", "X">>},
   full |-> s \in {<<"x", "x">>, <<"X", "X">>, <<"0", "x", "x">>,
                    <<"0", "X", "X">>},
   lower |-> s \in {<<>>, <<"x">>, <<"x", "x">>, <<"0">>, <<"0", "x">>,
                     <<"0", "x", "x">>}]

\* C20: parse maps every token of the mini-language to the documented
\* options: (none) and x abbreviated/lowercase/no prefix, xx full/lowercase/
\* no prefix, X abbreviated/uppercase/no prefix, XX full/uppercase/no prefix,
\* 0 and 0x abbreviated/lowercase/prefix, 0xx full/lowercase/prefix,
\* 0X abbreviated/uppercase/prefix, 0XX full/uppercase/prefix
C20_ParseMapsTokens ==
  (hx.op = "parse" /\ hx.spec \in Specifiers)
    => /\ hx.f.out = "ok"
       /\ hx.f.prefix = Documented(hx.spec).prefix
       /\ hx.f.full = Documented(hx.spec).full
       /\ hx.f.lower = Documented(hx.spec).lower
       /\ hx.f.it = Len(hx.spec) + 1

C20_Witness ==
  /\ hx.op = "parse"
  /\ hx.spec = <<"0", "X", "X">>
  /\ hx.f.out = "ok"
  /\ hx.f.prefix /\ hx.f.full /\ ~hx.f.lower

IsAlignPart(u) ==
  \/ u = <<>>
  \/ Len(u) = 1 /\ is_align(u[1])
  \/ Len(u) = 2 /\ u[1] # "}" /\ is_align(u[2])
IsWidthPart(u) ==
  \/ u = <<>>
  \/ Len(u) >= 1 /\ u[1] # "0" /\ \A i \in 1 .. Len(u) : is_digit(u[i])
  \/ /\ Len(u) >= 2 /\ u[1] = "{" /\ u[Len(u)] = "}"
     /\ \A i \in 2 .. (Len(u) - 1) : is_digit(u[i])
IsSeparatorPart(u) == u = <<>> \/ u = <<";">>

\* the string is an optional layout part followed by one of the ten tokens
LayoutThenToken(s) ==
  \E i \in 0 .. Len(s) : \E j \in i .. Len(s) : \E k \in j .. Len(s) :
    /\ IsAlignPart(SubSeq(s, 1, i))
    /\ IsWidthPart(SubSeq(s, i + 1, j))
    /\ IsSeparatorPart(SubSeq(s, j + 1, k))
    /\ SubSeq(s, k + 1, Len(s)) \in Specifiers

CaseDigits(s) == IF s \in UpperSpecifiers THEN UpperDigits ELSE LowerDigits

\* the two characters at position k of the text are byte b: its high
\* nibble, then its low nibble, in the case of the specifier
TwoDigitsAt(h, k, b) ==
  /\ k + 1 <= Len(h.text)
  /\ h.text[k] = CaseDigits(h.spec)[(b \div 16) + 1]
  /\ h.text[k + 1] = CaseDigits(h.spec)[(b % 16) + 1]

\* C22: every rendered byte is two zero-padded hex digits, high nibble
\* first, in the selected case: a full specifier gives the optional "0x"
\* and exactly 2*|B| digits in byte order, and the head and the tail of an
\* abbreviated output are in the selected case too
C22_TwoDigitsPerByte ==
  (hx.op = "format" /\ hx.span # <<>>)
    => LET off == IF hx.spec \in PrefixSpecifiers THEN 2 ELSE 0
           n == Len(hx.span)
       IN /\ SubSeq(hx.text, 1, off) = SubSeq(Prefix0x, 1, off)
          /\ hx.spec \in FullSpecifiers
               => /\ Len(hx.text) = off + 2 * n
                  /\ \A i \in 1 .. n : TwoDigitsAt(hx, off + 2 * i - 1, hx.span[i])
          /\ (\E k \in 1 .. Len(hx.text) : hx.text[k] = Ellipsis)
               => /\ Len(hx.text) = off + 9
                  /\ hx.text[off + 5] = Ellipsis
                  /\ TwoDigitsAt(hx, off + 1, hx.span[1])
                  /\ TwoDigitsAt(hx, off + 3, hx.span[2])
                  /\ TwoDigitsAt(hx, off + 6, hx.span[n - 1])
                  /\ TwoDigitsAt(hx, off + 8, hx.span[n])

C22_Witness ==
  /\ hx.op = "format"
  /\ hx.spec = <<"X">>
  /\ Len(hx.span) >= 5
  /\ hx.span[1] >= 160 /\ hx.span[Len(hx.span)] >= 160
  /\ hx.text[5] = Ellipsis
  /\ hx.text[1] = "A" /\ hx.text[9] = "B"

\* C23: toHex() of an empty ByteVec is the empty string, and toHex() of a
\* non-empty ByteVec is two hex digits per byte with no prefix and no
\* abbreviation, whatever the length
C23_ToHex ==
  hx.op = "toHex"
    => /\ hx.span = <<>> => hx.text = <<>>
       /\ hx.span # <<>>
            => hx.text \in {DigitsOf(TRUE, hx.span), DigitsOf(FALSE, hx.span)}

\* a text of hex digits of even length
IsEvenHex(s) == Len(s) % 2 = 0 /\ ~HasNonHex(s)

\* a literal _unhex is meant to take: hex digits, with or without "0x"
ValidLiteral(s) ==
  IsEvenHex(s) \/ (starts_with_0x(s) /\ IsEvenHex(remove_prefix(s, 2)))

\* C25: for every valid even-length hex string h, the empty one included,
\* the literals "0x"+h and h decode to the same byte vector, and an invalid
\* literal throws instead of returning bytes
C25_LiteralOptionalPrefix ==
  hx.op = "_unhex"
    => /\ IsEvenHex(hx.h)
            => (hx.plain.out = "ok" /\ hx.prefixed = hx.plain)
       /\ ~ValidLiteral(hx.h) => hx.plain.out = "throws"
       /\ ~IsEvenHex(hx.h) => hx.prefixed.out = "throws"

\* C26: unhex reports one error in a fixed order: UNEXPECTED_0X for a text
\* that begins with "0x", else ODD_LENGTH for an odd length, else the size
\* error (FIXED_SIZE_TOO_LONG for a resizable destination over max_size,
\* TOO_SHORT / TOO_LONG for a fixed destination of another length), and
\* NON_HEX only for a text that passes all of these and has a non-hex
\* character
C26_ErrorOrder ==
  hx.op = "unhex"
    => LET s == hx.s
           t == hx.t
           count == unhexSize(s)
           out == hx.r.out
           shaped == ~starts_with_0x(s) /\ Len(s) % 2 = 0
       IN /\ starts_with_0x(s) => out = "UNEXPECTED_0X"
          /\ (~starts_with_0x(s) /\ Len(s) % 2 # 0) => out = "ODD_LENGTH"
          /\ (shaped /\ t.kind = "resizable" /\ count > hx.max_size)
               => out = "FIXED_SIZE_TOO_LONG"
          /\ (shaped /\ t.kind = "fixed" /\ count < Len(t.c))
               => out = "TOO_SHORT"
          /\ (shaped /\ t.kind = "fixed" /\ count > Len(t.c))
               => out = "TOO_LONG"
          /\ out = "NON_HEX"
               => /\ shaped
                  /\ HasNonHex(s)
                  /\ t.kind = "resizable" => count <= hx.max_size
                  /\ t.kind = "fixed" => count = Len(t.c)

\* a text of the wrong length with a non-hex character, decoded into a
\* fixed destination, gives the size error
C26_Witness ==
  /\ hx.op = "unhex"
  /\ hx.t.kind = "fixed"
  /\ HasNonHex(hx.s)
  /\ ~starts_with_0x(hx.s)
  /\ Len(hx.s) % 2 = 0
  /\ unhexSize(hx.s) > Len(hx.t.c)
  /\ hx.r.out = "TOO_LONG"

\* C27: the bound is kept on every mutation path the class exposes through
\* its public base too, the vector reference of asVector() and the inherited
\* std::vector members included: with a finite MaxSize no reachable state
\* of a live object has size() > MaxSize
C27_BoundThroughPublicBase == (Finite /\ alive) => Len(c) <= MaxSize

\* C28: the count, range and list inserts compare the requested count with
\* available = MaxSize - size() computed in size_type arithmetic: for every
\* count of the size_type range, those for which size() + count wraps
\* included, the call throws MaxSizeException iff count > MaxSize - size(),
\* and the subtraction does not wrap in a state the validated operations
\* reach
C28_AvailableArithmetic ==
  [][(Finite /\ last'.op \in MultiInsertOps)
       => /\ MaxSize - Len(c) >= 0
          /\ available(MaxSize, Len(c)) = MaxSize - Len(c)
          /\ (last'.out = "MaxSizeException") = (last'.n > MaxSize - Len(c))
          /\ last'.out \in {"ok", "MaxSizeException"}]_vars

\* a count whose sum with the size wraps to a value within MaxSize is
\* rejected
C28_Witness ==
  /\ Finite
  /\ alive
  /\ last.op = "insert_size_value"
  /\ last.n = SizeTypeMax
  /\ Len(c) >= 1
  /\ (Len(c) + last.n) % (SizeTypeMax + 1) <= MaxSize
  /\ last.out = "MaxSizeException"

\* the number of bytes of a text in UTF-8
ByteLen(text) ==
  Len(text)
    + (kEllipsisBytes - 1) * Cardinality({i \in 1 .. Len(text) : text[i] = Ellipsis})

\* the text is the content with max(0, w - len) fill characters: all after
\* the content for "<", all before it for ">", floor(pad / 2) before and the
\* remainder after for "^"
PaddedTo(text, f, content, w) ==
  LET len == ByteLen(content)
      pad == Max(0, w - len)
      fills(n) == Fill(n, f.fill)
  IN IF f.align = "<" THEN text = content \o fills(pad)
     ELSE IF f.align = ">" THEN text = fills(pad) \o content
     ELSE text = fills(pad \div 2) \o content \o fills(pad - pad \div 2)

\* what the formatter f writes for the span of the call without a width
Unpadded(h) ==
  format_width([h.f EXCEPT !.width = 0, !.dynamic_width = FALSE],
               h.span, NoArg).text

\* C30: with a width w, static or the value of the dynamic argument (a value
\* <= 0 meaning no padding), the formatter writes the content it writes
\* without width and exactly max(0, w - len) fill characters, len being the
\* byte length of the content, placed after, before or around the content
\* as the alignment says
C30_PadsToWidth ==
  (hx.op = "format_width" /\ hx.r.out = "ok")
    => PaddedTo(hx.r.text, hx.f, Unpadded(hx),
                IF hx.f.dynamic_width THEN hx.arg.v ELSE hx.f.width)

\* the same for the dynamic values an int holds and for static widths
FormatWidthWithinInt ==
  (hx.op = "format_width" /\ hx.r.out = "ok"
     /\ (hx.f.dynamic_width => static_cast_int(hx.arg.v) = hx.arg.v))
    => PaddedTo(hx.r.text, hx.f, Unpadded(hx),
                IF hx.f.dynamic_width THEN hx.arg.v ELSE hx.f.width)

(***************************************************************************)
(* qtils::SharedRef (include/qtils/shared_ref.hpp): a std::shared_ptr that *)
(* is checked for null when it is wrapped.  Copy and move are the          *)
(* defaulted members, so they do to ptr_ what std::shared_ptr does.        *)
(***************************************************************************)
\* ensureIsNodNull(): throws std::invalid_argument if (!ptr_)
ensureIsNodNull(ptr) == IF ptr = nullptr THEN "invalid_argument" ELSE "ok"

\* T *get() const
get(r) == r.ptr

\* explicit operator bool() const
operator_bool(r) == r.ptr # nullptr

RefCall(op, out, i, j, arg) ==
  [op |-> op, out |-> out, i |-> i, j |-> j, arg |-> arg]

\* a constructor of SharedRef number i that checks the pointer it wraps:
\* the object exists afterwards iff nothing was thrown
CheckedCtor(op, i, j, ptr) ==
  /\ ~sr.objs[i].alive
  /\ sr' = [objs |-> IF ensureIsNodNull(ptr) = "ok"
                       THEN [sr.objs EXCEPT ![i] = [alive |-> TRUE, ptr |-> ptr]]
                       ELSE sr.objs,
            last |-> RefCall(op, ensureIsNodNull(ptr), i, j, ptr)]
  /\ UNCHANGED <<vars, hx, bov>>

RefStep(op, i, j, objs) ==
  /\ sr' = [objs |-> objs, last |-> RefCall(op, "ok", i, j, sr.objs[j].ptr)]
  /\ UNCHANGED <<vars, hx, bov>>

InitRef ==
  /\ MaxSize = SizeTypeMax
  /\ alive = FALSE
  /\ c = <<>>
  /\ cap = 0
  /\ last = NoCall
  /\ hx = NoCodec
  /\ sr = NoRefs
  /\ bov = NoBov

\* SharedRef(std::shared_ptr<T> sptr)
RefFromSharedPtr ==
  \E i \in Refs, sptr \in Ptrs : CheckedCtor("ctor_shared_ptr", i, 0, sptr)

\* SharedRef(T *raw, Deleter deleter)
RefFromRaw ==
  \E i \in Refs, raw \in Ptrs : CheckedCtor("ctor_raw", i, 0, raw)

\* SharedRef(std::shared_ptr<T> sptr, ForceInject, ForceInject)
RefForceInject ==
  \E i \in Refs, sptr \in Ptrs : CheckedCtor("ctor_inject", i, 0, sptr)

\* SharedRef(const SharedRef<U> &other)
RefConvert ==
  \E i \in Refs, j \in Refs :
    /\ sr.objs[j].alive
    /\ CheckedCtor("ctor_convert", i, j, sr.objs[j].ptr)

\* SharedRef(const SharedRef &) = default
RefCopy ==
  \E i \in Refs, j \in Refs :
    /\ ~sr.objs[i].alive /\ sr.objs[j].alive
    /\ RefStep("ctor_copy", i, j,
               [sr.objs EXCEPT ![i] = [alive |-> TRUE, ptr |-> sr.objs[j].ptr]])

\* SharedRef(SharedRef &&) noexcept = default
RefMove ==
  \E i \in Refs, j \in Refs :
    /\ ~sr.objs[i].alive /\ sr.objs[j].alive
    /\ RefStep("ctor_move", i, j,
               [sr.objs EXCEPT ![i] = [alive |-> TRUE, ptr |-> sr.objs[j].ptr],
                               ![j] = [alive |-> TRUE, ptr |-> nullptr]])

\* SharedRef &operator=(const SharedRef &) = default
RefCopyAssign ==
  \E i \in Refs, j \in Refs :
    /\ sr.objs[i].alive /\ sr.objs[j].alive
    /\ RefStep("assign_copy", i, j,
               [sr.objs EXCEPT ![i] = [alive |-> TRUE, ptr |-> sr.objs[j].ptr]])

\* SharedRef &operator=(SharedRef &&) noexcept = default
RefMoveAssign ==
  \E i \in Refs, j \in Refs :
    /\ sr.objs[i].alive /\ sr.objs[j].alive
    /\ RefStep("assign_move", i, j,
               IF i = j THEN sr.objs
               ELSE [sr.objs EXCEPT ![i] = [alive |-> TRUE, ptr |-> sr.objs[j].ptr],
                                    ![j] = [alive |-> TRUE, ptr |-> nullptr]])

\* void swap(SharedRef &other) noexcept
RefSwap ==
  \E i \in Refs, j \in Refs :
    /\ sr.objs[i].alive /\ sr.objs[j].alive
    /\ RefStep("swap", i, j,
               [sr.objs EXCEPT ![i] = sr.objs[j], ![j] = sr.objs[i]])

\* the scope of a SharedRef ends
RefDestroy ==
  \E i \in Refs :
    /\ sr.objs[i].alive
    /\ RefStep("destroy", i, i, [sr.objs EXCEPT ![i] = NoRef])

NextRef ==
  \/ RefFromSharedPtr
  \/ RefFromRaw
  \/ RefForceInject
  \/ RefConvert
  \/ RefCopy
  \/ RefMove
  \/ RefCopyAssign
  \/ RefMoveAssign
  \/ RefSwap
  \/ RefDestroy

SpecRef == InitRef /\ [][NextRef]_hvars

\* C24: construction from a null shared_ptr or a null raw pointer throws
\* std::invalid_argument, and after any copy, move, assignment and swap every
\* SharedRef that can still be used, a moved-from one included, has
\* get() != nullptr and converts to true
C24_NeverNull ==
  /\ (sr.last.op \in {"ctor_shared_ptr", "ctor_raw"} /\ sr.last.arg = nullptr)
       => (sr.last.out = "invalid_argument" /\ ~sr.objs[sr.last.i].alive)
  /\ \A i \in Refs :
       sr.objs[i].alive
         => (get(sr.objs[i]) # nullptr /\ operator_bool(sr.objs[i]))

(***************************************************************************)
(* qtils::ByteVecOrView (byte_vec_or_view.hpp): a std::variant of a        *)
(* ByteView, a ByteVec and the tag Moved.  bov.variant names the           *)
(* alternative held, bov.bytes the bytes of the view or of the buffer.     *)
(***************************************************************************)
BovInputs == UNION {[1 .. k -> ByteVals] : k \in 0 .. MaxLimit}

\* the objects another ByteVecOrView can be when it is moved from
BovOthers ==
  {[variant |-> a, bytes |-> b] : a \in {"ByteView", "ByteVec"}, b \in BovInputs}
  \cup {[variant |-> "Moved", bytes |-> <<>>]}

\* outcome of a call: what was thrown, the alternative and the bytes held
\* afterwards, and what the call returned
Bov(out, variant, bytes, owned, ret) ==
  [out |-> out, variant |-> variant, bytes |-> bytes, owned |-> owned,
   ret |-> ret]

\* bool isOwned() const
isOwned(v) ==
  IF v.variant = "Moved"
    THEN Bov("logic_error", v.variant, v.bytes, FALSE, <<>>)
    ELSE Bov("ok", v.variant, v.bytes, v.variant = "ByteVec", <<>>)

\* ByteView view() const
view(v) ==
  LET o == isOwned(v) IN
  IF o.out # "ok" THEN o ELSE [o EXCEPT !.ret = v.bytes]

\* ByteVec &mut()
mut(v) ==
  LET o == isOwned(v) IN
  IF o.out # "ok" THEN o
  ELSE IF ~o.owned
    THEN Bov("ok", "ByteVec", vector_ctor_copy(v.bytes).c, TRUE, v.bytes)
    ELSE Bov("ok", "ByteVec", v.bytes, TRUE, v.bytes)

\* intoByteVec that moves the buffer out and keeps the emptied buffer
intoByteVec_keeps_buffer(v) ==
  LET m == mut(v) IN
  IF m.out # "ok" THEN m
  ELSE Bov("ok", "ByteVec", vector_ctor_move(m.bytes).src, FALSE, m.bytes)

\* ByteVec intoByteVec() &
intoByteVec(v) ==
  LET m == mut(v) IN
  IF m.out # "ok" THEN m
  ELSE Bov("ok", "Moved", <<>>, FALSE, vector_ctor_move(m.bytes).c)

\* ByteVec intoByteVec() &&
intoByteVec_rvalue(v) ==
  LET m == mut(v) IN
  IF m.out # "ok" THEN m
  ELSE Bov("ok", "ByteVec", vector_ctor_move(m.bytes).src, FALSE,
           vector_ctor_move(m.bytes).c)

\* ByteVecOrView &operator=(ByteVecOrView &&other) = default
move_assign(v, other) == Bov("ok", other.variant, other.bytes, FALSE, <<>>)

\* ByteVecOrView(ByteVecOrView &&) = default, with v as the source: the
\* alternative stays, a buffer is left empty
moved_from(v) ==
  Bov("ok", v.variant,
      IF v.variant = "ByteVec" THEN vector_ctor_move(v.bytes).src ELSE v.bytes,
      FALSE, <<>>)

BovIdle == bov.exists /\ bov.last.op = "none"

BovStep(op, r) ==
  /\ bov' = [exists |-> TRUE, variant |-> r.variant, bytes |-> r.bytes,
             last |-> [op |-> op, out |-> r.out, owned |-> r.owned,
                       ret |-> r.ret]]
  /\ UNCHANGED <<vars, hx, sr>>

InitBov ==
  /\ MaxSize = SizeTypeMax
  /\ alive = FALSE
  /\ c = <<>>
  /\ cap = 0
  /\ last = NoCall
  /\ hx = NoCodec
  /\ sr = NoRefs
  /\ bov = NoBov

\* ByteVecOrView() = default
BovCtorDefault ==
  /\ ~bov.exists
  /\ BovStep("ctor_default", Bov("ok", "ByteView", <<>>, FALSE, <<>>))

\* ByteVecOrView(const ByteView &view) and the constructor from std::array
BovCtorView ==
  /\ ~bov.exists
  /\ \E b \in BovInputs :
       BovStep("ctor_view", Bov("ok", "ByteView", b, FALSE, <<>>))

\* ByteVecOrView(std::vector<uint8_t> &&vector)
BovCtorVector ==
  /\ ~bov.exists
  /\ \E b \in BovInputs :
       BovStep("ctor_vector",
               Bov("ok", "ByteVec", vector_ctor_move(b).c, FALSE, <<>>))

BovMoveAssign ==
  /\ BovIdle
  /\ \E other \in BovOthers : BovStep("move_assign", move_assign(bov, other))

BovMovedFrom ==
  /\ BovIdle
  /\ BovStep("moved_from", moved_from(bov))

BovIsOwned ==
  /\ BovIdle
  /\ BovStep("isOwned", isOwned(bov))

BovView ==
  /\ BovIdle
  /\ BovStep("view", view(bov))

\* data(), size(), begin(), end(): each is view() and the member of the view
BovViewMember ==
  /\ BovIdle
  /\ \E member \in {"data", "size", "begin", "end"} :
       BovStep(member, view(bov))

BovMut ==
  /\ BovIdle
  /\ BovStep("mut", mut(bov))

BovIntoByteVec ==
  /\ BovIdle
  /\ BovStep("intoByteVec", intoByteVec(bov))

BovIntoByteVecRvalue ==
  /\ BovIdle
  /\ BovStep("intoByteVec_rvalue", intoByteVec_rvalue(bov))

\* the caller takes the outcome of the call and goes on
BovReturn ==
  /\ bov.last.op # "none"
  /\ bov' = [bov EXCEPT !.last = NoBovCall]
  /\ UNCHANGED <<vars, hx, sr>>

NextBov ==
  \/ BovCtorDefault
  \/ BovCtorView
  \/ BovCtorVector
  \/ BovMoveAssign
  \/ BovMovedFrom
  \/ BovIsOwned
  \/ BovView
  \/ BovViewMember
  \/ BovMut
  \/ BovIntoByteVec
  \/ BovIntoByteVecRvalue
  \/ BovReturn

SpecBov == InitBov /\ [][NextBov]_hvars

\* ------------------------------------------ the claims on ByteVecOrView
BovCalls ==
  {"isOwned", "view", "size", "data", "begin", "end", "mut", "intoByteVec",
   "intoByteVec_rvalue"}

\* what mut() and intoByteVec() on an lvalue do to an object that is not in
\* the moved state, and what every call does to one that is
BovCallsBehave ==
  /\ (bov'.last.op = "mut" /\ bov.variant # "Moved")
       => /\ bov'.last.out = "ok"
          /\ bov'.variant = "ByteVec"
          /\ bov'.bytes = bov.bytes
          /\ view(bov').ret = view(bov).ret
  /\ (bov'.last.op = "intoByteVec" /\ bov.variant # "Moved")
       => /\ bov'.last.out = "ok"
          /\ bov'.last.ret = bov.bytes
          /\ bov'.variant = "Moved"
  /\ (bov'.last.op \in BovCalls /\ bov.variant = "Moved")
       => /\ bov'.last.out = "logic_error"
          /\ bov'.variant = "Moved"

\* C29 as the specification states it: mut() makes a view an owned copy of
\* the same bytes and keeps an owned buffer, view() unchanged; intoByteVec()
\* on an lvalue returns the bytes and leaves the moved state; every call in
\* the moved state throws std::logic_error; and the moved state is
\* absorbing: no step leaves it
C29_MovedIsAbsorbing ==
  [][/\ BovCallsBehave
     /\ (bov.exists /\ bov.variant = "Moved") => bov'.variant = "Moved"]_hvars

\* C29: the same, the moved state being left by no call other than the
\* move assignment of another ByteVecOrView to the object
C29_MovedUntilAssigned ==
  [][/\ BovCallsBehave
     /\ (bov.exists /\ bov.variant = "Moved"
           /\ bov'.last.op # "move_assign")
          => bov'.variant = "Moved"]_hvars

\* mut() has thrown in the moved state that intoByteVec() left
C29_Witness ==
  /\ bov.exists
  /\ bov.variant = "Moved"
  /\ bov.last.op = "mut"
  /\ bov.last.out = "logic_error"
====
